---- MODULE Spec2Model ----
(***************************************************************************)
(* A model of the video-analytics core: slide-transition detection, scene  *)
(* consolidation, scene-list building and transcript alignment             *)
(* (src/src/core/video_processor.py), segment merging and merged-video     *)
(* assembly (src/src/core/video_trimmer.py) and the search request         *)
(* (src/main.py, src/openai_analyzer_clean.py).                            *)
(*                                                                         *)
(* Time.  The detector samples one fingerprint per second, so its          *)
(* timestamps are whole seconds and are modelled as integers.  The         *)
(* trimmer's times are modelled as integer hundredths of a second, so      *)
(* that the one-decimal formatting of the output name is a real rounding.  *)
(*                                                                         *)
(* The module holds several specifications.  Each one drives one group of  *)
(* variables and leaves the other groups at their idle values.             *)
(***************************************************************************)
EXTENDS Integers, Sequences, FiniteSets, TLC

\* ---------------------------------------------------------------- helpers

Last(s) == s[Len(s)]

Max2(a, b) == IF a >= b THEN a ELSE b

StrictlyIncreasing(s) ==
    \A i \in 1..(Len(s) - 1) : s[i] < s[i + 1]

\* All sequences over S of length 0..n.
RECURSIVE SeqsUpTo(_, _)
SeqsUpTo(S, n) ==
    IF n = 0 THEN {<<>>}
    ELSE LET shorter == SeqsUpTo(S, n - 1)
         IN shorter \cup {Append(s, x) : s \in {t \in shorter : Len(t) = n - 1}, x \in S}

\* ------------------------------------------------------------------ bounds

\* Fingerprints sampled from one video (one per second).
MaxFrames == 6

\* Largest timestamp of a hand-made transition list, and its longest length.
MaxTime == 6
MaxTransitions == 4

\* Largest min_scene_duration tried.
MaxMinDuration == 4

\* Transcript alignment: largest time, most transitions, most transcript segments.
MaxAlignTime == 3
MaxAlignTransitions == 3
MaxSegments == 2

\* _merge_overlapping_segments alone: times are ticks of TimeStep, at most
\* MaxTick of them, and at most MaxSelected scenes are selected.
MaxTick == 5
MaxSelected == 3

\* One merged-video request: the scenes in its selection.
MaxResults == 3

\* One search request: candidates returned by the semantic search, and indices
\* in the oracle's reply.
MaxCandidates == 3
MaxPicked == 2

\* Ingestion: scenes a processing run yields, runs started.
MaxIngestScenes == 2
MaxRuns == 2

\* trim_video: start and end times, in seconds, are 0..MaxTrimTime.
MaxTrimTime == 4

\* Output naming: the varying part of a query has up to MaxQueryLen characters.
MaxQueryLen == 4

\* ------------------------------------------------------- program constants

\* _detect_slide_transitions(..., threshold: int = 6)
DefaultThreshold == 6

\* _consolidate_short_scenes(..., min_scene_duration: float = 3.0)
DefaultMinSceneDuration == 3

\* if segment.start_time <= current_group[-1].end_time + 5, in hundredths of a second
MergeGap == 500

\* color=c=black:size=1280x720:duration=3, in hundredths of a second
TitleCardDuration == 300

\* query_safe.replace(' ', '_')[:50]
QueryLimit == 50

\* filtered_results = results[:2]
FallbackSize == 2

\* The grid of the times tried by the merge function: 2.5 s, half of the merge gap.
TimeStep == MergeGap \div 2

\* Fingerprint distances tried: below, at and above the thresholds tried.
DiffVals == {2, 6, 9}
Thresholds == {5, DefaultThreshold}

\* ------------------------------------------------------------------- state

VARIABLES
    \* --- video_processor.py: one process_video run
    ppc,              \* position in the run
    num_hashes,       \* len(hashes): fingerprints sampled, at timestamps 0..n-1
    hash_diffs,       \* hash_diffs[i] = abs(hashes[i] - hashes[i-1]), i = 1..n-1
    threshold,        \* detection threshold
    confirmed,        \* slide_changes as the detection loop leaves it
    slide_changes,    \* the transition list: <<timestamp, scene_id of the file name>>
    video_duration,
    scene_list,       \* <<start, end>> pairs
    kept,             \* consolidation runs: min_scene_duration -> result
    tried,            \* the min_scene_duration values run so far
    segments,         \* the transcription engine's segments: [start, end, text]
    scene_transcripts \* the SceneData list

VARIABLES
    \* --- video_trimmer.py: _merge_overlapping_segments on its own
    mpc,              \* "input" or "merged"
    selection,        \* the segments passed in: SearchResults of one video
    groups,           \* the groups returned
    play,             \* <<start, end>> of each group: min start_time, max end_time

    \* --- video_trimmer.py: one create_merged_video_from_search_results call
    apc,              \* position in the call
    query,
    search_results,   \* the selection, in the caller's order
    include_titles,
    add_transitions,
    available,        \* video ids whose source file exists
    video_segments,   \* the dict, as the list of its items in insertion order
    vidx,             \* the item of video_segments the outer loop is at
    merged_segments,  \* the groups of that video
    gidx,             \* the group the inner loop is at
    segment_files,    \* the clips written so far, title cards included
    temp_dir,         \* whether the temporary directory exists
    concat_file,      \* whether <output>.concat.txt exists
    output_file,      \* "none", "partial" or "complete"
    output_filename,  \* the name computed, a text
    error,            \* "none", or the exception raised
    concat_list,      \* the lines written to <output>.concat.txt, in order
    returned_path     \* the path the call returned, <<>> while it has returned none

VARIABLES
    \* --- main.py: one search_videos request
    spc,              \* position in the request
    store_hits,       \* what the semantic search finds
    results,          \* results, the candidates
    oracle_reply,     \* the relevance oracle's reply: indices, or a failure
    presented,        \* scenes_data: the candidates as the prompt numbers them
    filtered_results,
    assembly_input,   \* the search_results handed to the assembly
    merged_video_path,\* what the assembly returned: a path, or <<>> for none
    trimmed_videos,   \* the output directory: files by path, with what made them
    merged_video_url, \* the URL, a text, or <<>> for None
    http_status       \* 0 while running, then 200 or 500

VARIABLES
    \* --- main.py, vector_store.py: uploads, processing runs, reprocess requests
    videos_storage,   \* video id -> its VideoMetadata: processing_status, scenes_count
    scenes_storage,   \* the dict's values in insertion order: SceneData with scene_id
    background_tasks, \* the videos whose upload has queued a run not yet started
    run,              \* the process_video_background call holding the event loop
    uuids_used,       \* how many scene ids uuid4 has handed out
    runs_started,     \* how many runs have begun
    reprocess_status  \* 0, or the HTTP status of the last reprocess_video response

VARIABLES
    \* --- video_trimmer.py: one trim_video call
    tpc,              \* position in the call
    ffmpeg_found,     \* what _check_ffmpeg answers
    input_exists,     \* os.path.exists(input_path)
    trim_start,
    trim_end,
    commands_issued,  \* extraction commands handed to the media tool
    trim_output,      \* output_path: "none", "partial" or "complete"
    trim_error        \* "none", or the exception raised

VARIABLES
    \* --- video_processor.py: one _generate_visual_context_parallel call
    wpc,              \* "idle", "submit", "running", "returned"
    visual_scenes,    \* the list scenes, whose items the loop updates
    image_files,      \* the scene images whose files exist
    futures,          \* future_to_idx: for the scene at idx + 1, its future
    yielded           \* the scenes as_completed has yielded, in that order

ivars == <<videos_storage, scenes_storage, background_tasks, run, uuids_used,
           runs_started, reprocess_status>>

tvars == <<tpc, ffmpeg_found, input_exists, trim_start, trim_end, commands_issued,
           trim_output, trim_error>>

svars == <<spc, store_hits, results, oracle_reply, presented, filtered_results,
           assembly_input, merged_video_path, trimmed_videos, merged_video_url,
           http_status>>

WIdle ==
    /\ wpc = "idle"
    /\ visual_scenes = <<>>
    /\ image_files = {}
    /\ futures = <<>>
    /\ yielded = <<>>

mvars == <<mpc, selection, groups, play>>

avars == <<apc, query, search_results, include_titles, add_transitions, available,
           video_segments, vidx, merged_segments, gidx, segment_files, temp_dir,
           concat_file, output_file, output_filename, error, concat_list,
           returned_path>>

pvars == <<ppc, num_hashes, hash_diffs, threshold, confirmed, slide_changes,
           video_duration, scene_list, kept, tried, segments, scene_transcripts>>

wvars == <<wpc, visual_scenes, image_files, futures, yielded>>

vars == <<pvars, mvars, avars, svars, ivars, tvars, wvars>>

\* ------------------------------------------- video_processor.py: functions

\* A slip: the look-back applied without the guard on the last index.
is_real_transition_unguarded(diffs, n, thr, i) ==
    IF i > 1 THEN diffs[i - 1] <= thr ELSE TRUE

\* The temporal validation of one candidate, i being a Python index of hashes.
is_real_transition(diffs, n, thr, i) ==
    IF i > 1 /\ i < n - 1
    THEN LET prev_prev_diff == diffs[i - 1]
             next_diff == diffs[i + 1]
         IN IF prev_prev_diff <= thr /\ next_diff <= thr THEN TRUE
            ELSE IF prev_prev_diff > thr THEN FALSE
            ELSE TRUE
    ELSE TRUE

\* The detection loop, for i in range(1, len(hashes)): timestamps[i] = i.
RECURSIVE detect_loop(_, _, _, _, _, _)
detect_loop(diffs, n, thr, i, changes, scene_id) ==
    IF i > n - 1 THEN changes
    ELSE IF diffs[i] > thr /\ is_real_transition(diffs, n, thr, i)
         THEN detect_loop(diffs, n, thr, i + 1, Append(changes, <<i, scene_id>>), scene_id + 1)
         ELSE detect_loop(diffs, n, thr, i + 1, changes, scene_id)

\* A slip: the gap taken from the transition before, kept or not.
RECURSIVE consolidate_loop_last_seen(_, _, _, _)
consolidate_loop_last_seen(changes, min_scene_duration, i, consolidated) ==
    IF i > Len(changes) THEN consolidated
    ELSE IF changes[i][1] - changes[i - 1][1] >= min_scene_duration
         THEN consolidate_loop_last_seen(changes, min_scene_duration, i + 1,
                                         Append(consolidated, changes[i]))
         ELSE consolidate_loop_last_seen(changes, min_scene_duration, i + 1, consolidated)

\* The loop of _consolidate_short_scenes, i being the 1-based position.
RECURSIVE consolidate_loop(_, _, _, _)
consolidate_loop(changes, min_scene_duration, i, consolidated) ==
    IF i > Len(changes) THEN consolidated
    ELSE LET current_time == changes[i][1]
             last_kept_time == Last(consolidated)[1]
             scene_duration == current_time - last_kept_time
         IN IF scene_duration >= min_scene_duration
            THEN consolidate_loop(changes, min_scene_duration, i + 1, Append(consolidated, changes[i]))
            ELSE consolidate_loop(changes, min_scene_duration, i + 1, consolidated)

\* A slip: the branches of the duration test swapped.
RECURSIVE consolidate_loop_swapped(_, _, _, _)
consolidate_loop_swapped(changes, min_scene_duration, i, consolidated) ==
    IF i > Len(changes) THEN consolidated
    ELSE IF changes[i][1] - Last(consolidated)[1] >= min_scene_duration
         THEN consolidate_loop_swapped(changes, min_scene_duration, i + 1, consolidated)
         ELSE consolidate_loop_swapped(changes, min_scene_duration, i + 1, Append(consolidated, changes[i]))

_consolidate_short_scenes_swapped(changes, min_scene_duration) ==
    IF Len(changes) < 2 THEN changes
    ELSE consolidate_loop_swapped(changes, min_scene_duration, 2, <<changes[1]>>)

\* A slip: nothing but the first transition kept.
_consolidate_short_scenes_first_only(changes, min_scene_duration) ==
    IF Len(changes) < 2 THEN changes
    ELSE <<changes[1]>>

_consolidate_short_scenes(changes, min_scene_duration) ==
    IF Len(changes) < 2 THEN changes
    ELSE consolidate_loop(changes, min_scene_duration, 2, <<changes[1]>>)

\* The list the detection loop builds, before the consolidation.
detected_changes(diffs, n, thr) ==
    IF n < 2 THEN <<>>
    ELSE detect_loop(diffs, n, thr, 1, <<>>, 1)

_detect_slide_transitions(diffs, n, thr) ==
    IF n < 2 THEN <<>>
    ELSE _consolidate_short_scenes(detected_changes(diffs, n, thr), DefaultMinSceneDuration)

\* A slip: the final scene appended without comparing with the duration.
_generate_scene_list_always_final(changes, duration) ==
    IF Len(changes) < 2
    THEN << <<(IF changes # <<>> THEN changes[1][1] ELSE 0), duration>> >>
    ELSE Append([i \in 1..(Len(changes) - 1) |-> <<changes[i][1], changes[i + 1][1]>>],
                <<Last(changes)[1], duration>>)

_generate_scene_list_from_slides(changes, duration) ==
    IF Len(changes) < 2
    THEN << <<(IF changes # <<>> THEN changes[1][1] ELSE 0), duration>> >>
    ELSE LET pairs == [i \in 1..(Len(changes) - 1) |-> <<changes[i][1], changes[i + 1][1]>>]
             last_timestamp == Last(changes)[1]
         IN IF last_timestamp < duration
            THEN Append(pairs, <<last_timestamp, duration>>)
            ELSE pairs

\* Text is a sequence of one-character strings; " " is the whitespace character.
IsSpace(c) == c = " "

RECURSIVE lstrip(_)
lstrip(text) ==
    IF text # <<>> /\ IsSpace(Head(text)) THEN lstrip(Tail(text)) ELSE text

RECURSIVE rstrip(_)
rstrip(text) ==
    IF text # <<>> /\ IsSpace(Last(text)) THEN rstrip(SubSeq(text, 1, Len(text) - 1)) ELSE text

\* str.strip()
strip(text) == lstrip(rstrip(text))

\* A slip: the overlap test with non-strict inequalities.
segment_overlaps_inclusive(segment, start, end) ==
    segment.start <= end /\ segment.end >= start

\* segment['start'] < end and segment['end'] > start
segment_overlaps(segment, start, end) ==
    segment.start < end /\ segment.end > start

\* The inner loop: transcript_text += segment['text'] + " " for each overlapping segment.
RECURSIVE transcript_loop(_, _, _, _, _)
transcript_loop(segs, start, end, k, transcript_text) ==
    IF k > Len(segs) THEN transcript_text
    ELSE IF segment_overlaps(segs[k], start, end)
         THEN transcript_loop(segs, start, end, k + 1, transcript_text \o segs[k].text \o <<" ">>)
         ELSE transcript_loop(segs, start, end, k + 1, transcript_text)

\* One SceneData; idx is the Python index of the scene. The image is the scene_id
\* of the file name of slide_changes[idx], 0 for none.
scene_data(scenes, segs, changes, video_id, idx) ==
    LET start == scenes[idx + 1][1]
        end == scenes[idx + 1][2]
        transcript_text == transcript_loop(segs, start, end, 1, <<>>)
    IN [video_id |-> video_id,
        scene_number |-> idx + 1,
        start_time |-> start,
        end_time |-> end,
        transcript |-> strip(transcript_text),
        combined_context |-> strip(transcript_text),
        visual_context |-> <<>>,
        scene_image |-> IF idx < Len(changes) THEN changes[idx + 1][2] ELSE 0]

_create_scene_transcripts(scenes, segs, changes, video_id) ==
    [k \in 1..Len(scenes) |-> scene_data(scenes, segs, changes, video_id, k - 1)]

\* ThreadPoolExecutor(max_workers=5)
MaxWorkers == 5

\* The text the f-string puts between the transcript and the description.
VisualContextLabel ==
    <<" ", "|", " ", "V", "i", "s", "u", "a", "l", " ",
      "C", "o", "n", "t", "e", "x", "t", ":", " ">>

\* The description of one scene, None (<<>>) without an image file or when the
\* call raises; reply is what self.llm does: its content, or an exception.
_generate_visual_context_for_scene(scene, files, reply) ==
    IF scene.scene_image = 0 \/ scene.scene_image \notin files
    THEN <<>>
    ELSE IF reply.raised
    THEN <<>>
    ELSE strip(reply.content)

\* The loop body with the test of visual_context left out.
attach_visual_context_unchecked(scene_seq, idx, visual_context) ==
    [scene_seq EXCEPT
        ![idx + 1].visual_context = visual_context,
        ![idx + 1].combined_context =
            scene_seq[idx + 1].transcript \o VisualContextLabel \o visual_context]

\* The body of the as_completed loop for the future of scenes[idx].
attach_visual_context(scene_seq, idx, visual_context) ==
    IF visual_context # <<>>
    THEN [scene_seq EXCEPT
            ![idx + 1].visual_context = visual_context,
            ![idx + 1].combined_context =
                scene_seq[idx + 1].transcript \o VisualContextLabel \o visual_context]
    ELSE [scene_seq EXCEPT
            ![idx + 1].combined_context = scene_seq[idx + 1].transcript]

\* --------------------------------------------- video_trimmer.py: functions

\* A SearchResult, as far as the trimmer reads it. Times are hundredths of a second.
SearchResult(v, a, b) == [video_id |-> v, start_time |-> a, end_time |-> b]

\* sorted(segments, key=lambda x: x.start_time); Python's sort is stable.
RECURSIVE insert_by_start(_, _)
insert_by_start(sorted_segments, x) ==
    IF sorted_segments = <<>> THEN <<x>>
    ELSE IF x.start_time < Head(sorted_segments).start_time THEN <<x>> \o sorted_segments
    ELSE <<Head(sorted_segments)>> \o insert_by_start(Tail(sorted_segments), x)

RECURSIVE sorted_by_start(_)
sorted_by_start(segs) ==
    IF segs = <<>> THEN <<>>
    ELSE insert_by_start(sorted_by_start(SubSeq(segs, 1, Len(segs) - 1)), Last(segs))

\* The loop over sorted_segments[1:], k being the 1-based position.
RECURSIVE merge_loop(_, _, _, _)
merge_loop(sorted_segments, k, done_groups, current_group) ==
    IF k > Len(sorted_segments) THEN Append(done_groups, current_group)
    ELSE LET segment == sorted_segments[k]
         IN IF segment.start_time <= Last(current_group).end_time + MergeGap
            THEN merge_loop(sorted_segments, k + 1, done_groups, Append(current_group, segment))
            ELSE merge_loop(sorted_segments, k + 1, Append(done_groups, current_group), <<segment>>)

\* A slip: everything put into one group.
_merge_overlapping_segments_single(segs) ==
    IF segs = <<>> THEN <<>>
    ELSE <<sorted_by_start(segs)>>

_merge_overlapping_segments(segs) ==
    IF segs = <<>> THEN <<>>
    ELSE LET sorted_segments == sorted_by_start(segs)
         IN merge_loop(sorted_segments, 2, <<>>, <<sorted_segments[1]>>)

RECURSIVE min_start(_)
min_start(group) ==
    IF Len(group) = 1 THEN group[1].start_time
    ELSE LET m == min_start(Tail(group))
         IN IF group[1].start_time <= m THEN group[1].start_time ELSE m

RECURSIVE max_end(_)
max_end(group) ==
    IF Len(group) = 1 THEN group[1].end_time
    ELSE Max2(group[1].end_time, max_end(Tail(group)))

\* start_time = min(s.start_time ...), end_time = max(s.end_time ...) of each group
segment_bounds(segment_groups) ==
    [i \in 1..Len(segment_groups) |-> <<min_start(segment_groups[i]), max_end(segment_groups[i])>>]

\* sorted(search_results, key=lambda x: (x.video_id, x.start_time)); stable.
video_start_before(x, y) ==
    \/ x.video_id < y.video_id
    \/ (x.video_id = y.video_id /\ x.start_time < y.start_time)

RECURSIVE insert_by_video_start(_, _)
insert_by_video_start(sorted_part, x) ==
    IF sorted_part = <<>> THEN <<x>>
    ELSE IF video_start_before(x, Head(sorted_part)) THEN <<x>> \o sorted_part
    ELSE <<Head(sorted_part)>> \o insert_by_video_start(Tail(sorted_part), x)

RECURSIVE sorted_by_video_start(_)
sorted_by_video_start(selected) ==
    IF selected = <<>> THEN <<>>
    ELSE insert_by_video_start(sorted_by_video_start(SubSeq(selected, 1, Len(selected) - 1)),
                               Last(selected))

\* A slip: the selection grouped as it comes, without the sort.
sorted_results_unsorted(selected) == selected

\* sorted_results
sorted_results(selected) == sorted_by_video_start(selected)

\* A slip: the whole selection kept as one video's segments.
group_by_video_together(selected, items) ==
    IF selected = <<>> THEN items
    ELSE <<[video_id |-> Head(selected).video_id,
            title |-> Head(selected).video_id,
            segments |-> selected]>>

\* The dict video_segments, built in the order of sorted_results: the list of
\* its items, a video's title being the title its first result carries.
RECURSIVE group_by_video(_, _)
group_by_video(selected, items) ==
    IF selected = <<>> THEN items
    ELSE LET result == Head(selected)
             at == {i \in 1..Len(items) : items[i].video_id = result.video_id}
         IN IF at = {}
            THEN group_by_video(Tail(selected),
                     Append(items, [video_id |-> result.video_id,
                                    title |-> result.video_id,
                                    segments |-> <<result>>]))
            ELSE group_by_video(Tail(selected),
                     [i \in 1..Len(items) |->
                         IF i \in at
                         THEN [items[i] EXCEPT !.segments = Append(@, result)]
                         ELSE items[i]])

\* A slip: the source file taken to exist without looking.
video_file_found_unchecked(v, files_present) == TRUE

\* original_path and os.path.exists(original_path), get_video_path_func being
\* main.get_video_file_path: None unless the metadata's file exists.
video_file_found(v, files_present) == v \in files_present

\* The clip files. A title card shows its video's title and "Segment <label>";
\* a trimmed segment is named after segment_index, its label.
TitleFile(title, number) ==
    [kind |-> "title", video_id |-> title, start_time |-> 0,
     end_time |-> TitleCardDuration, label |-> number]

SegmentFile(v, start, end, segment_index) ==
    [kind |-> "segment", video_id |-> v, start_time |-> start,
     end_time |-> end, label |-> segment_index]

\* _get_video_duration: the clip's length as ffprobe reports it, 0.0 when ffprobe fails.
_get_video_duration(file, probe_ok) ==
    IF probe_ok THEN file.end_time - file.start_time ELSE 0

RECURSIVE total_duration(_, _)
total_duration(files, probe_ok) ==
    IF files = <<>> THEN 0
    ELSE _get_video_duration(Head(files), probe_ok) + total_duration(Tail(files), probe_ok)

Digits == <<"0", "1", "2", "3", "4", "5", "6", "7", "8", "9">>

\* str(n) for n >= 0
RECURSIVE int_text(_)
int_text(n) ==
    IF n < 10 THEN <<Digits[n + 1]>>
    ELSE int_text(n \div 10) \o <<Digits[(n % 10) + 1]>>

\* The tenths f"{x:.1f}" may show for x = cs hundredths: the nearest tenth; on
\* an exact decimal tie the binary value of the float decides, either way.
rounded_tenths(cs) ==
    IF cs % 10 < 5 THEN {cs \div 10}
    ELSE IF cs % 10 > 5 THEN {(cs \div 10) + 1}
    ELSE {cs \div 10, (cs \div 10) + 1}

\* f"{x:.1f}" given the tenths
format_1f(tenths) == int_text(tenths \div 10) \o <<".">> \o int_text(tenths % 10)

\* c.isalnum(), on the characters the queries use
AlnumChars ==
    {"a", "b", "c", "d", "e", "f", "g", "h", "i", "j", "k", "l", "m", "n", "o", "p", "q",
     "r", "s", "t", "u", "v", "w", "x", "y", "z", "A", "Z", "0", "1", "2", "3", "4", "5",
     "6", "7", "8", "9"}

query_keeps(c) == c \in AlnumChars \/ c \in {" ", "-", "_"}

\* A slip: the name's query part left at its full length.
query_safe_untruncated(q) ==
    LET joined == rstrip(SelectSeq(q, query_keeps))
    IN [i \in 1..Len(joined) |-> IF joined[i] = " " THEN "_" ELSE joined[i]]

\* "".join(c for c in query if ...).rstrip() then .replace(' ', '_')[:50]
query_safe(q) ==
    LET joined == rstrip(SelectSeq(q, query_keeps))
        replaced == [i \in 1..Len(joined) |-> IF joined[i] = " " THEN "_" ELSE joined[i]]
    IN SubSeq(replaced, 1, IF Len(replaced) < QueryLimit THEN Len(replaced) ELSE QueryLimit)

\* f"merged_{query_safe}_{len(segment_files)}segments_{total_duration:.1f}s_{timestamp}.mp4"
output_name(q, files, tenths, timestamp) ==
    <<"m", "e", "r", "g", "e", "d", "_">> \o query_safe(q) \o <<"_">>
        \o int_text(Len(files)) \o <<"s", "e", "g", "m", "e", "n", "t", "s", "_">>
        \o format_1f(tenths) \o <<"s", "_">> \o timestamp \o <<".", "m", "p", "4">>

\* ------------------------------- openai_analyzer_clean.py, main.py: functions

\* sort(key=lambda x: x.scene_number) of one video's candidates; stable.
RECURSIVE insert_by_scene_number(_, _)
insert_by_scene_number(sorted_part, x) ==
    IF sorted_part = <<>> THEN <<x>>
    ELSE IF x.scene_number < Head(sorted_part).scene_number THEN <<x>> \o sorted_part
    ELSE <<Head(sorted_part)>> \o insert_by_scene_number(Tail(sorted_part), x)

RECURSIVE sorted_by_scene_number(_)
sorted_by_scene_number(scenes) ==
    IF scenes = <<>> THEN <<>>
    ELSE insert_by_scene_number(sorted_by_scene_number(SubSeq(scenes, 1, Len(scenes) - 1)),
                                Last(scenes))

\* The video ids of the candidates, in the order the dict video_scenes meets them.
RECURSIVE video_order(_)
video_order(candidates) ==
    IF candidates = <<>> THEN <<>>
    ELSE LET before == video_order(SubSeq(candidates, 1, Len(candidates) - 1))
         IN IF \E i \in 1..Len(before) : before[i] = Last(candidates).video_id
            THEN before
            ELSE Append(before, Last(candidates).video_id)

\* scenes_data: the candidates grouped by video, each video's by scene number;
\* the prompt calls scenes_data[k - 1] "Scene k".
RECURSIVE scenes_of_videos(_, _)
scenes_of_videos(candidates, video_ids) ==
    IF video_ids = <<>> THEN <<>>
    ELSE sorted_by_scene_number(
             SelectSeq(candidates, LAMBDA r : r.video_id = Head(video_ids)))
         \o scenes_of_videos(candidates, Tail(video_ids))

scenes_data(candidates) == scenes_of_videos(candidates, video_order(candidates))

\* The loop with the lower bound of the test left out: Python reads index -1 as
\* the last item.
RECURSIVE pick_relevant_no_lower_bound(_, _)
pick_relevant_no_lower_bound(candidates, relevant_indices) ==
    IF relevant_indices = <<>> THEN <<>>
    ELSE LET scene_num == Head(relevant_indices)
             rest == pick_relevant_no_lower_bound(candidates, Tail(relevant_indices))
         IN IF scene_num <= Len(candidates)
            THEN <<candidates[IF scene_num >= 1 THEN scene_num ELSE Len(candidates)]>> \o rest
            ELSE rest

\* for scene_num in relevant_indices: if 1 <= scene_num <= len(search_results): ...
RECURSIVE pick_relevant(_, _)
pick_relevant(candidates, relevant_indices) ==
    IF relevant_indices = <<>> THEN <<>>
    ELSE LET scene_num == Head(relevant_indices)
             rest == pick_relevant(candidates, Tail(relevant_indices))
         IN IF 1 <= scene_num /\ scene_num <= Len(candidates)
            THEN <<candidates[scene_num]>> \o rest
            ELSE rest

\* The oracle's reply: the indices it names, or a failure of the call or of
\* the parsing of its text.
OracleFailed == [failed |-> TRUE, relevant_scenes |-> <<>>]

OracleSaid(relevant_indices) == [failed |-> FALSE, relevant_scenes |-> relevant_indices]

\* The filter with the except branch returning nothing.
filter_truly_relevant_scenes_dropping(candidates, reply) ==
    IF candidates = <<>> THEN <<>>
    ELSE IF reply.failed THEN <<>>
    ELSE pick_relevant(candidates, reply.relevant_scenes)

filter_truly_relevant_scenes(candidates, reply) ==
    IF candidates = <<>> THEN <<>>
    ELSE IF reply.failed THEN candidates
    ELSE pick_relevant(candidates, reply.relevant_scenes)

\* os.path.join(self.output_dir, output_filename), the name being told apart by
\* its uuid prefix alone here.
OutputPath(timestamp) ==
    <<"t", "r", "i", "m", "m", "e", "d", "_", "v", "i", "d", "e", "o", "s", "/", "m", "_">>
        \o timestamp

\* os.path.basename
RECURSIVE basename(_)
basename(path) ==
    IF path = <<>> \/ Last(path) = "/" THEN <<>>
    ELSE Append(basename(SubSeq(path, 1, Len(path) - 1)), Last(path))

\* os.path.exists
path_exists(path, files) == \E f \in files : f.path = path

\* A slip: the URL given without looking for the file.
merged_url_unchecked(path, files) ==
    IF path # <<>>
    THEN <<"/", "t", "r", "i", "m", "m", "e", "d", "_", "v", "i", "d", "e", "o", "s", "/">>
             \o basename(path)
    ELSE <<>>

\* merged_video_url as search_videos sets it from merged_video_path
merged_url(path, files) ==
    IF path # <<>> /\ path_exists(path, files)
    THEN <<"/", "t", "r", "i", "m", "m", "e", "d", "_", "v", "i", "d", "e", "o", "s", "/">>
             \o basename(path)
    ELSE <<>>

\* results[:2]
top_results(candidates) ==
    SubSeq(candidates, 1, IF Len(candidates) < FallbackSize THEN Len(candidates) ELSE FallbackSize)

\* --------------------------------- main.py, vector_store.py: functions

\* A VideoMetadata, as far as the status handling reads it.
\* A VideoMetadata as far as the handlers read it; error_message is "None" until
\* an except clause sets it.
VideoMetadata(status, count) ==
    [processing_status |-> status, scenes_count |-> count, error_message |-> "None"]

\* An except clause that sets the message and leaves the status as it was.
failed_metadata_status_kept(metadata, message) ==
    [metadata EXCEPT !.error_message = message]

\* The except clause of process_video_background: "failed" and str(e).
failed_metadata(metadata, message) ==
    [metadata EXCEPT !.processing_status = "failed", !.error_message = message]

\* videos_storage.get(video_id) finds nothing.
NoVideo == VideoMetadata("absent", 0)

NoRun == [video_id |-> 0, step |-> "none", scenes |-> <<>>, stored |-> 0, origin |-> "none"]

\* The SceneData of _create_scene_transcripts with its scene_id=str(uuid.uuid4()).
stored_scene(scene, scene_id) ==
    [scene_id |-> scene_id,
     video_id |-> scene.video_id,
     scene_number |-> scene.scene_number,
     start_time |-> scene.start_time,
     end_time |-> scene.end_time]

\* What process_video can return for a video: the scenes of 1..MaxIngestScenes
\* transitions, one a second, in a video one second longer than the most.
IngestTransitionLists ==
    {[i \in 1..n |-> <<i, i>>] : n \in 1..MaxIngestScenes}

process_video(changes, video_id, first_uuid) ==
    LET scenes == _create_scene_transcripts(
                      _generate_scene_list_from_slides(changes, MaxIngestScenes + 1),
                      <<>>, changes, video_id)
    IN [k \in 1..Len(scenes) |-> stored_scene(scenes[k], first_uuid + k)]

\* VectorStore.get_video_scenes, in-memory branch.
get_video_scenes(storage, video_id) ==
    sorted_by_scene_number(SelectSeq(storage, LAMBDA scene : scene.video_id = video_id))

\* ------------------------------------------ video_trimmer.py: trim_video

\* A slip: only a reversed range is refused.
time_range_rejected_reversed_only(start_time, end_time) == start_time > end_time

\* if start_time >= end_time: raise ValueError
time_range_rejected(start_time, end_time) == start_time >= end_time

\* ------------------------------------ specification: one process_video run

SIdle ==
    /\ spc = "idle"
    /\ store_hits = <<>>
    /\ results = <<>>
    /\ oracle_reply = <<>>
    /\ presented = <<>>
    /\ filtered_results = <<>>
    /\ assembly_input = <<>>
    /\ merged_video_path = <<>>
    /\ trimmed_videos = {}
    /\ merged_video_url = <<>>
    /\ http_status = 0

IIdle ==
    /\ videos_storage = <<>>
    /\ scenes_storage = <<>>
    /\ background_tasks = {}
    /\ run = NoRun
    /\ uuids_used = 0
    /\ runs_started = 0
    /\ reprocess_status = 0

TIdle ==
    /\ tpc = "idle"
    /\ ffmpeg_found = FALSE
    /\ input_exists = FALSE
    /\ trim_start = 0
    /\ trim_end = 0
    /\ commands_issued = 0
    /\ trim_output = "none"
    /\ trim_error = "none"

MIdle ==
    /\ mpc = "idle"
    /\ selection = <<>>
    /\ groups = <<>>
    /\ play = <<>>

AIdle ==
    /\ apc = "idle"
    /\ query = <<>>
    /\ search_results = <<>>
    /\ include_titles = FALSE
    /\ add_transitions = FALSE
    /\ available = {}
    /\ video_segments = <<>>
    /\ vidx = 0
    /\ merged_segments = <<>>
    /\ gidx = 0
    /\ segment_files = <<>>
    /\ temp_dir = FALSE
    /\ concat_file = FALSE
    /\ output_file = "none"
    /\ output_filename = <<>>
    /\ error = "none"
    /\ concat_list = <<>>
    /\ returned_path = <<>>

PIdle ==
    /\ ppc = "idle"
    /\ num_hashes = 0
    /\ hash_diffs = <<>>
    /\ threshold = DefaultThreshold
    /\ confirmed = <<>>
    /\ slide_changes = <<>>
    /\ video_duration = 0
    /\ scene_list = <<>>
    /\ kept = <<>>
    /\ tried = {}
    /\ segments = <<>>
    /\ scene_transcripts = <<>>

\* A video of n seconds gives n fingerprints, at 0..n-1, with any distances.
InitDetect ==
    /\ WIdle
    /\ IIdle
    /\ TIdle
    /\ SIdle
    /\ MIdle
    /\ AIdle
    /\ ppc = "detect"
    /\ num_hashes \in 1..MaxFrames
    /\ hash_diffs \in [1..(num_hashes - 1) -> DiffVals]
    /\ threshold \in Thresholds
    /\ video_duration = num_hashes
    /\ confirmed = <<>>
    /\ slide_changes = <<>>
    /\ scene_list = <<>>
    /\ kept = <<>>
    /\ tried = {}
    /\ segments = <<>>
    /\ scene_transcripts = <<>>

DetectSlideTransitions ==
    /\ UNCHANGED <<mvars, avars, svars, ivars, tvars, wvars>>
    /\ ppc = "detect"
    /\ confirmed' = detected_changes(hash_diffs, num_hashes, threshold)
    /\ slide_changes' = _detect_slide_transitions(hash_diffs, num_hashes, threshold)
    /\ ppc' = "scene_list"
    /\ UNCHANGED <<num_hashes, hash_diffs, threshold, video_duration, scene_list, kept, tried, segments, scene_transcripts>>

GenerateSceneList ==
    /\ UNCHANGED <<mvars, avars, svars, ivars, tvars, wvars>>
    /\ ppc = "scene_list"
    /\ scene_list' = _generate_scene_list_from_slides(slide_changes, video_duration)
    /\ ppc' = "scenes_done"
    /\ UNCHANGED <<num_hashes, hash_diffs, threshold, confirmed, slide_changes,
                   video_duration, kept, tried, segments, scene_transcripts>>

NextDetect ==
    \/ DetectSlideTransitions
    \/ GenerateSceneList

SpecDetect == InitDetect /\ [][NextDetect]_vars

\* ------------- specification: the scene functions on any transition list

\* The timestamps of a transition list.
Times(changes) == [i \in 1..Len(changes) |-> changes[i][1]]

\* Strictly increasing transition lists, the i-th one named Scene-i.
\* and the list of diagnose_error.py: transitions at 10, 25 and 30 s.
TransitionLists ==
    {[i \in 1..Len(ts) |-> <<ts[i], i>>] :
        ts \in {t \in SeqsUpTo(0..MaxTime, MaxTransitions) : StrictlyIncreasing(t)}
               \cup {<<10, 25, 30>>}}

MinDurations == 0..MaxMinDuration

InitScenes ==
    /\ WIdle
    /\ IIdle
    /\ TIdle
    /\ SIdle
    /\ MIdle
    /\ AIdle
    /\ ppc = "functions"
    /\ slide_changes \in TransitionLists
    /\ video_duration \in 1..(MaxTime + 1)
    /\ kept = [d \in MinDurations |-> <<>>]
    /\ tried = {}
    /\ segments = <<>>
    /\ scene_transcripts = <<>>
    /\ scene_list = <<>>
    /\ num_hashes = 0
    /\ hash_diffs = <<>>
    /\ threshold = DefaultThreshold
    /\ confirmed = <<>>

ConsolidateShortScenes ==
    /\ UNCHANGED <<mvars, avars, svars, ivars, tvars, wvars>>
    /\ ppc = "functions"
    /\ \E d \in MinDurations :
          /\ d \notin tried
          /\ kept' = [kept EXCEPT ![d] = _consolidate_short_scenes(slide_changes, d)]
          /\ tried' = tried \cup {d}
    /\ UNCHANGED <<ppc, num_hashes, hash_diffs, threshold, confirmed, slide_changes,
                   video_duration, scene_list, segments, scene_transcripts>>

GenerateSceneListFromSlides ==
    /\ UNCHANGED <<mvars, avars, svars, ivars, tvars, wvars>>
    /\ ppc = "functions"
    /\ scene_list = <<>>
    /\ scene_list' = _generate_scene_list_from_slides(slide_changes, video_duration)
    /\ UNCHANGED <<ppc, num_hashes, hash_diffs, threshold, confirmed, slide_changes,
                   video_duration, kept, tried, segments, scene_transcripts>>

NextScenes ==
    \/ ConsolidateShortScenes
    \/ GenerateSceneListFromSlides

SpecScenes == InitScenes /\ [][NextScenes]_vars

\* --------------------------------------- specification: transcript alignment

\* Segment texts: plain, and with the leading blank the engine usually emits.
SegmentTexts == {<<"a">>, <<" ", "b">>}

TranscriptSegments ==
    {seg \in [start : 0..MaxAlignTime, end : 0..MaxAlignTime, text : SegmentTexts] :
        seg.start < seg.end}

AlignTransitionLists ==
    {[i \in 1..Len(ts) |-> <<ts[i], i>>] :
        ts \in {t \in SeqsUpTo(0..MaxAlignTime, MaxAlignTransitions) : StrictlyIncreasing(t)}}

InitAlign ==
    /\ WIdle
    /\ IIdle
    /\ TIdle
    /\ SIdle
    /\ MIdle
    /\ AIdle
    /\ ppc = "transcripts"
    /\ slide_changes \in AlignTransitionLists
    /\ video_duration \in {MaxAlignTime - 1, MaxAlignTime}
    /\ scene_list = _generate_scene_list_from_slides(slide_changes, video_duration)
    /\ segments \in SeqsUpTo(TranscriptSegments, MaxSegments)
    /\ scene_transcripts = <<>>
    /\ num_hashes = 0
    /\ hash_diffs = <<>>
    /\ threshold = DefaultThreshold
    /\ confirmed = <<>>
    /\ kept = <<>>
    /\ tried = {}

CreateSceneTranscripts ==
    /\ UNCHANGED <<mvars, avars, svars, ivars, tvars, wvars>>
    /\ ppc = "transcripts"
    /\ scene_transcripts' = _create_scene_transcripts(scene_list, segments, slide_changes, 1)
    /\ ppc' = "visual_context"
    /\ UNCHANGED <<num_hashes, hash_diffs, threshold, confirmed, slide_changes,
                   video_duration, scene_list, kept, tried, segments>>

NextAlign ==
    \/ CreateSceneTranscripts

SpecAlign == InitAlign /\ [][NextAlign]_vars

\* ------------------------------ specification: visual context, in parallel

MaxVisualScenes == 3

\* What the model of the image says of the image of a scene: a description, the
\* same between blanks, blanks alone, or an exception.
VisualReplies(image) ==
    {[raised |-> FALSE, content |-> <<"d", Digits[image + 1]>>],
     [raised |-> FALSE, content |-> <<" ", "d", Digits[image + 1], " ">>],
     [raised |-> FALSE, content |-> <<" ">>],
     [raised |-> TRUE, content |-> <<>>]}

\* The scenes of a video with n transitions, one second apart, and a transcript
\* segment per second: "t1", "t2", ...
VisualScenesOf(n) ==
    LET changes == [i \in 1..n |-> <<i - 1, i>>]
        duration == Max2(n, 1)
        segs == [i \in 1..duration |->
                    [start |-> i - 1, end |-> i, text |-> <<"t", Digits[i + 1]>>]]
    IN _create_scene_transcripts(_generate_scene_list_from_slides(changes, duration),
                                 segs, changes, 1)

InitVisual ==
    /\ IIdle
    /\ TIdle
    /\ SIdle
    /\ MIdle
    /\ AIdle
    /\ PIdle
    /\ wpc = "submit"
    /\ \E n \in 0..MaxVisualScenes :
          /\ visual_scenes = VisualScenesOf(n)
          /\ image_files \in SUBSET (1..n)
    /\ futures = <<>>
    /\ yielded = <<>>

\* The dict comprehension: one future per scene, in the order of the list.
SubmitVisualContext ==
    /\ UNCHANGED <<pvars, mvars, avars, svars, ivars, tvars>>
    /\ wpc = "submit"
    /\ futures' = [k \in 1..Len(visual_scenes) |-> [state |-> "queued", result |-> <<>>]]
    /\ wpc' = "running"
    /\ UNCHANGED <<visual_scenes, image_files, yielded>>

\* A free worker takes the oldest queued call.
WorkerStart ==
    /\ UNCHANGED <<pvars, mvars, avars, svars, ivars, tvars>>
    /\ wpc = "running"
    /\ Cardinality({k \in 1..Len(futures) : futures[k].state = "running"}) < MaxWorkers
    /\ \E k \in 1..Len(futures) :
          /\ futures[k].state = "queued"
          /\ \A j \in 1..(k - 1) : futures[j].state # "queued"
          /\ futures' = [futures EXCEPT ![k].state = "running"]
    /\ UNCHANGED <<wpc, visual_scenes, image_files, yielded>>

\* A call of _generate_visual_context_for_scene returns in its worker.
WorkerReturn ==
    /\ UNCHANGED <<pvars, mvars, avars, svars, ivars, tvars>>
    /\ wpc = "running"
    /\ \E k \in 1..Len(futures) :
          /\ futures[k].state = "running"
          /\ \E reply \in VisualReplies(visual_scenes[k].scene_image) :
                futures' = [futures EXCEPT
                    ![k] = [state |-> "finished",
                            result |-> _generate_visual_context_for_scene(
                                           visual_scenes[k], image_files, reply)]]
    /\ UNCHANGED <<wpc, visual_scenes, image_files, yielded>>

\* as_completed yields a finished future and the loop body runs for it; after
\* the last one the function returns the list.
AttachVisualContext ==
    /\ UNCHANGED <<pvars, mvars, avars, svars, ivars, tvars>>
    /\ wpc = "running"
    /\ \E k \in 1..Len(futures) :
          /\ futures[k].state = "finished"
          /\ \A i \in 1..Len(yielded) : yielded[i] # k
          /\ visual_scenes' = attach_visual_context(visual_scenes, k - 1, futures[k].result)
          /\ yielded' = Append(yielded, k)
    /\ wpc' = IF Len(yielded') = Len(futures) THEN "returned" ELSE "running"
    /\ UNCHANGED <<image_files, futures>>

NextVisual ==
    \/ SubmitVisualContext
    \/ WorkerStart
    \/ WorkerReturn
    \/ AttachVisualContext

SpecVisual == InitVisual /\ [][NextVisual]_vars

\* --------------------------- specification: _merge_overlapping_segments alone

\* Any intervals of one video on the grid: overlapping and nested ones too.
MergeScenes ==
    {SearchResult(1, t[1] * TimeStep, t[2] * TimeStep) :
        t \in {u \in (0..MaxTick) \X (0..MaxTick) : u[1] < u[2]}}

\* The scenes [10, 20), [22, 30), [50, 60) in two orders, and three scenes ten
\* seconds apart.
MergeExamples ==
    {<<SearchResult(1, 1000, 2000), SearchResult(1, 2200, 3000), SearchResult(1, 5000, 6000)>>,
     <<SearchResult(1, 5000, 6000), SearchResult(1, 2200, 3000), SearchResult(1, 1000, 2000)>>,
     <<SearchResult(1, 1000, 2000), SearchResult(1, 3000, 4000), SearchResult(1, 5000, 6000)>>}

InitMerge ==
    /\ WIdle
    /\ IIdle
    /\ TIdle
    /\ SIdle
    /\ PIdle
    /\ AIdle
    /\ mpc = "input"
    /\ selection \in SeqsUpTo(MergeScenes, MaxSelected) \cup MergeExamples
    /\ groups = <<>>
    /\ play = <<>>

MergeOverlappingSegments ==
    /\ UNCHANGED <<pvars, avars, svars, ivars, tvars, wvars>>
    /\ mpc = "input"
    /\ groups' = _merge_overlapping_segments(selection)
    /\ play' = segment_bounds(groups')
    /\ mpc' = "merged"
    /\ UNCHANGED selection

NextMerge ==
    \/ MergeOverlappingSegments

SpecMerge == InitMerge /\ [][NextMerge]_vars

\* ------------- specification: one create_merged_video_from_search_results call

\* The source videos, by id; ids sort as the program's id strings do.
VideoIds == {1, 2}

\* Every video has the same three scenes, a partition of [0, 45.67 s).
SceneBoundaries == <<0, 1000, 2000, 4567>>

Scenes ==
    {SearchResult(v, SceneBoundaries[i], SceneBoundaries[i + 1]) :
        v \in VideoIds, i \in 1..(Len(SceneBoundaries) - 1)}

\* The selections: up to MaxResults different scenes, in any order.
Selections ==
    {r \in SeqsUpTo(Scenes, MaxResults) :
        \A i, j \in 1..Len(r) : i # j => r[i] # r[j]}

\* "explain architecture!!"
Queries ==
    {<<"e", "x", "p", "l", "a", "i", "n", " ", "a", "r", "c", "h", "i", "t", "e", "c", "t",
       "u", "r", "e", "!", "!">>}

\* str(uuid.uuid4())[:8], two of them
Timestamps == {<<"0", "a">>, <<"7", "f">>}

InitAssemble ==
    /\ WIdle
    /\ IIdle
    /\ TIdle
    /\ SIdle
    /\ PIdle
    /\ MIdle
    /\ apc = "pending"
    /\ query \in Queries
    /\ search_results \in Selections
    /\ include_titles \in BOOLEAN
    /\ add_transitions \in BOOLEAN
    /\ available \in SUBSET VideoIds
    /\ video_segments = <<>>
    /\ vidx = 0
    /\ merged_segments = <<>>
    /\ gidx = 0
    /\ segment_files = <<>>
    /\ temp_dir = FALSE
    /\ concat_file = FALSE
    /\ output_file = "none"
    /\ output_filename = <<>>
    /\ error = "none"
    /\ concat_list = <<>>
    /\ returned_path = <<>>

\* An exception leaves the with block: the temporary directory goes with it.
Raise(what) ==
    /\ apc' = "failed"
    /\ error' = what
    /\ temp_dir' = FALSE

\* The loops left after the first group extracted.
AfterGroup_first_group_only(v, g, group_count) ==
    IF g = 0 /\ v < Len(video_segments)
    THEN /\ gidx' = 0
         /\ vidx' = v + 1
         /\ apc' = "resolve"
    ELSE /\ gidx' = 0
         /\ vidx' = v
         /\ apc' = "name"

\* The position after the inner loop's body, or a continue of the outer loop,
\* for the video at v and its group at g (g = 0: the video is skipped).
AfterGroup(v, g, group_count) ==
    IF g > 0 /\ g < group_count
    THEN /\ gidx' = g + 1
         /\ vidx' = v
         /\ apc' = IF include_titles /\ Len(video_segments) > 1 THEN "title" ELSE "trim"
    ELSE IF v < Len(video_segments)
    THEN /\ gidx' = 0
         /\ vidx' = v + 1
         /\ apc' = "resolve"
    ELSE /\ gidx' = 0
         /\ vidx' = v
         /\ apc' = "name"

\* The call up to the first await: the empty check, the sort, the grouping.
StartAssembly ==
    /\ UNCHANGED <<pvars, mvars, svars, ivars, tvars, wvars>>
    /\ UNCHANGED <<concat_list, returned_path>>
    /\ apc = "pending"
    /\ IF search_results = <<>>
       THEN /\ apc' = "failed"
            /\ error' = "ValueError: No search results provided for merging"
            /\ UNCHANGED <<video_segments, vidx, temp_dir>>
       ELSE /\ video_segments' = group_by_video(sorted_results(search_results), <<>>)
            /\ temp_dir' = TRUE
            /\ vidx' = 1
            /\ apc' = "resolve"
            /\ error' = "none"
    /\ UNCHANGED <<query, search_results, include_titles, add_transitions, available,
                   merged_segments, gidx, segment_files, concat_file, output_file,
                   output_filename>>

\* await get_video_path_func(video_id), the file check and the merge of the groups.
ResolveVideo ==
    /\ UNCHANGED <<pvars, mvars, svars, ivars, tvars, wvars>>
    /\ UNCHANGED <<concat_list, returned_path>>
    /\ apc = "resolve"
    /\ LET video_data == video_segments[vidx]
       IN IF ~video_file_found(video_data.video_id, available)
          THEN /\ AfterGroup(vidx, 0, 0)
               /\ UNCHANGED merged_segments
          ELSE /\ merged_segments' = _merge_overlapping_segments(video_data.segments)
               /\ gidx' = 1
               /\ vidx' = vidx
               /\ apc' = IF include_titles /\ Len(video_segments) > 1 THEN "title" ELSE "trim"
    /\ UNCHANGED <<query, search_results, include_titles, add_transitions, available,
                   video_segments, segment_files, temp_dir, concat_file, output_file,
                   output_filename, error>>

\* What a run of the media tool for a title card comes to.
TitleCardOutcomes == {"created", "exit code", "raised"}

\* _create_title_card: the card in a list of one, the empty list for None.
_create_title_card(video_title, number, outcome) ==
    IF outcome = "created" THEN <<TitleFile(video_title, number)>> ELSE <<>>

\* The title card step with a failure of the tool let out of the call.
CreateTitleCard_aborting ==
    /\ UNCHANGED <<pvars, mvars, svars, ivars, tvars, wvars>>
    /\ UNCHANGED <<concat_list, returned_path>>
    /\ apc = "title"
    /\ \E outcome \in TitleCardOutcomes :
          IF outcome = "created"
          THEN /\ segment_files' =
                     segment_files \o _create_title_card(video_segments[vidx].title,
                                                         Len(segment_files) + 1, outcome)
               /\ apc' = "trim"
               /\ UNCHANGED <<temp_dir, error>>
          ELSE /\ Raise("RuntimeError: Failed to create title card")
               /\ UNCHANGED segment_files
    /\ UNCHANGED <<query, search_results, include_titles, add_transitions, available,
                   video_segments, vidx, merged_segments, gidx, concat_file,
                   output_file, output_filename>>

\* await self._create_title_card(...) and `if title_file:`.
CreateTitleCard ==
    /\ UNCHANGED <<pvars, mvars, svars, ivars, tvars, wvars>>
    /\ UNCHANGED <<concat_list, returned_path>>
    /\ apc = "title"
    /\ \E outcome \in TitleCardOutcomes :
          segment_files' =
              segment_files \o _create_title_card(video_segments[vidx].title,
                                                  Len(segment_files) + 1, outcome)
    /\ apc' = "trim"
    /\ UNCHANGED <<query, search_results, include_titles, add_transitions, available,
                   video_segments, vidx, merged_segments, gidx, temp_dir, concat_file,
                   output_file, output_filename, error>>

\* await self._trim_segment_for_merge(...): the clip, or RuntimeError.
TrimSegmentForMerge ==
    /\ UNCHANGED <<pvars, mvars, svars, ivars, tvars, wvars>>
    /\ UNCHANGED <<concat_list, returned_path>>
    /\ apc = "trim"
    /\ LET bounds == segment_bounds(merged_segments)[gidx]
       IN \E tool_ok \in BOOLEAN :
            IF tool_ok
            THEN /\ segment_files' =
                       Append(segment_files,
                              SegmentFile(video_segments[vidx].video_id, bounds[1], bounds[2],
                                          Len(segment_files)))
                 /\ AfterGroup(vidx, gidx, Len(merged_segments))
                 /\ UNCHANGED <<temp_dir, error>>
            ELSE /\ Raise("RuntimeError: Failed to trim segment")
                 /\ UNCHANGED <<segment_files, vidx, gidx>>
    /\ UNCHANGED <<query, search_results, include_titles, add_transitions, available,
                   video_segments, merged_segments, concat_file, output_file,
                   output_filename>>

\* After the loops: the empty check and the output name.
NameOutput ==
    /\ UNCHANGED <<pvars, mvars, svars, ivars, tvars, wvars>>
    /\ UNCHANGED <<concat_list, returned_path>>
    /\ apc = "name"
    /\ IF segment_files = <<>>
       THEN /\ Raise("ValueError: No valid video segments found for merging")
            /\ UNCHANGED output_filename
       ELSE /\ \E probe_ok \in BOOLEAN, timestamp \in Timestamps :
                 \E tenths \in rounded_tenths(total_duration(segment_files, probe_ok)) :
                     output_filename' = output_name(query, segment_files, tenths, timestamp)
            /\ apc' = "concat"
            /\ UNCHANGED <<temp_dir, error>>
    /\ UNCHANGED <<query, search_results, include_titles, add_transitions, available,
                   video_segments, vidx, merged_segments, gidx, segment_files, concat_file,
                   output_file>>

\* _merge_video_segments up to its await: the concat list is written; with
\* add_transitions and a single clip the clip is copied and the call is over.
BeginMerge ==
    /\ UNCHANGED <<pvars, mvars, svars, ivars, tvars, wvars>>
    /\ apc = "concat"
    /\ IF add_transitions /\ Len(segment_files) = 1
       THEN \E copy_ok \in BOOLEAN :
              IF copy_ok
              THEN /\ output_file' = "complete"
                   /\ apc' = "done"
                   /\ temp_dir' = FALSE
                   /\ UNCHANGED error
              ELSE /\ output_file' \in {"none", "partial"}
                   /\ Raise("OSError: copy failed")
       ELSE /\ apc' = "merging"
            /\ UNCHANGED <<output_file, temp_dir, error>>
    /\ concat_file' = (apc' = "merging")
    /\ concat_list' = segment_files
    /\ returned_path' = IF apc' = "done" THEN output_filename ELSE <<>>
    /\ UNCHANGED <<query, search_results, include_titles, add_transitions, available,
                   video_segments, vidx, merged_segments, gidx, segment_files,
                   output_filename>>

\* The concat run of the media tool ends; the finally clause removes the list.
FinishMerge ==
    /\ UNCHANGED <<pvars, mvars, svars, ivars, tvars, wvars>>
    /\ apc = "merging"
    /\ \E tool_ok \in BOOLEAN :
          IF tool_ok
          THEN /\ output_file' = "complete"
               /\ apc' = "done"
               /\ temp_dir' = FALSE
               /\ UNCHANGED error
          ELSE /\ output_file' \in {"none", "partial"}
               /\ Raise("RuntimeError: Failed to merge segments")
    /\ concat_file' = FALSE
    /\ returned_path' = IF apc' = "done" THEN output_filename ELSE <<>>
    /\ UNCHANGED <<query, search_results, include_titles, add_transitions, available,
                   video_segments, vidx, merged_segments, gidx, segment_files,
                   output_filename, concat_list>>

NextAssemble ==
    \/ StartAssembly
    \/ ResolveVideo
    \/ CreateTitleCard
    \/ TrimSegmentForMerge
    \/ NameOutput
    \/ BeginMerge
    \/ FinishMerge

SpecAssemble == InitAssemble /\ [][NextAssemble]_vars

\* --------------------------- specification: the naming of the output file

\* Queries of letters, blanks, punctuation and hyphens, alone and after
\* QueryLimit - 2 letters, so that the cut at QueryLimit falls inside them.
QueryPadding == [i \in 1..(QueryLimit - 2) |-> "x"]

NameQueries ==
    LET tails == SeqsUpTo({"a", " ", "!", "-"}, MaxQueryLen)
    IN tails \cup {QueryPadding \o q : q \in tails}

\* A call that has extracted one clip of ten seconds and is about to name the
\* output.
InitName ==
    /\ WIdle
    /\ SIdle
    /\ PIdle
    /\ MIdle
    /\ IIdle
    /\ TIdle
    /\ apc = "name"
    /\ query \in NameQueries
    /\ search_results = <<SearchResult(1, 0, 1000)>>
    /\ include_titles = FALSE
    /\ add_transitions = FALSE
    /\ available = {1}
    /\ video_segments = group_by_video(sorted_results(search_results), <<>>)
    /\ vidx = 1
    /\ merged_segments = _merge_overlapping_segments(search_results)
    /\ gidx = 0
    /\ segment_files = <<SegmentFile(1, 0, 1000, 0)>>
    /\ temp_dir = TRUE
    /\ concat_file = FALSE
    /\ output_file = "none"
    /\ output_filename = <<>>
    /\ error = "none"
    /\ concat_list = <<>>
    /\ returned_path = <<>>

NextName ==
    \/ NameOutput

SpecName == InitName /\ [][NextName]_vars

\* ----------------------------------- specification: one search_videos request

\* The scenes the store holds: two scenes of each of two videos.
StoredScenes == [video_id : {1, 2}, scene_number : {1, 2}]

CandidateLists ==
    {r \in SeqsUpTo(StoredScenes, MaxCandidates) :
        \A i, j \in 1..Len(r) : i # j => r[i] # r[j]}

\* Replies name up to MaxPicked indices, some of them out of range.
OracleReplies ==
    {OracleFailed} \cup
    {OracleSaid(picked) : picked \in SeqsUpTo(0..(MaxCandidates + 1), MaxPicked)}

\* Output files of earlier requests, some under the names this one may take.
EarlierVideos ==
    {[path |-> OutputPath(t), request |-> "earlier", scenes |-> <<>>] : t \in Timestamps}

InitSearch ==
    /\ WIdle
    /\ IIdle
    /\ TIdle
    /\ PIdle
    /\ MIdle
    /\ AIdle
    /\ spc = "search"
    /\ store_hits \in CandidateLists
    /\ oracle_reply \in OracleReplies
    /\ results = <<>>
    /\ presented = <<>>
    /\ filtered_results = <<>>
    /\ assembly_input = <<>>
    /\ merged_video_path = <<>>
    /\ trimmed_videos \in SUBSET EarlierVideos
    /\ merged_video_url = <<>>
    /\ http_status = 0

\* await vector_store.search_scenes(...), and the else branch of "if results".
SearchScenes ==
    /\ UNCHANGED <<pvars, mvars, avars, ivars, tvars, wvars>>
    /\ spc = "search"
    /\ \E store_ok \in BOOLEAN :
          IF ~store_ok
          THEN /\ spc' = "responded"
               /\ http_status' = 500
               /\ UNCHANGED results
          ELSE /\ results' = store_hits
               /\ IF store_hits # <<>>
                  THEN spc' = "filter" /\ UNCHANGED http_status
                  ELSE spc' = "responded" /\ http_status' = 200
    /\ UNCHANGED <<store_hits, oracle_reply, presented, filtered_results, assembly_input,
                   merged_video_path, trimmed_videos, merged_video_url>>

\* await openai_analyzer.filter_truly_relevant_scenes(...), then the empty
\* check and the fallback that follows it.
FilterTrulyRelevantScenes ==
    /\ UNCHANGED <<pvars, mvars, avars, ivars, tvars, wvars>>
    /\ spc = "filter"
    /\ presented' = scenes_data(results)
    /\ LET filtered == filter_truly_relevant_scenes(results, oracle_reply)
       IN IF filtered = <<>>
          THEN /\ filtered_results' = filtered
               /\ spc' = "responded"
               /\ http_status' = 200
          ELSE /\ filtered_results' =
                     IF filtered = <<>> /\ results # <<>>
                     THEN top_results(results)
                     ELSE filtered
               /\ spc' = "analyze"
               /\ UNCHANGED http_status
    /\ UNCHANGED <<store_hits, results, oracle_reply, assembly_input, merged_video_path,
                   trimmed_videos, merged_video_url>>

\* await openai_analyzer.analyze_search_results(...): its timelines are not used.
AnalyzeSearchResults ==
    /\ UNCHANGED <<pvars, mvars, avars, ivars, tvars, wvars>>
    /\ spc = "analyze"
    /\ spc' = "assemble"
    /\ UNCHANGED <<store_hits, results, oracle_reply, presented, filtered_results,
                   assembly_input, merged_video_path, trimmed_videos, merged_video_url,
           http_status>>

\* await video_trimmer.create_merged_video_from_search_results(...) inside its
\* try. The output is written under a name with a new uuid prefix, over any
\* file of that name; the call returns its path, and the file is there or has
\* been removed since; or the call raises, with or without a partial file left.
CreateMergedVideo ==
    /\ UNCHANGED <<pvars, mvars, avars, ivars, tvars, wvars>>
    /\ spc = "assemble"
    /\ assembly_input' = filtered_results
    /\ \E outcome \in {"created", "no file", "raised", "raised late"},
          timestamp \in Timestamps :
          LET path == OutputPath(timestamp)
              others == {f \in trimmed_videos : f.path # path}
              written == [path |-> path, request |-> "this", scenes |-> filtered_results]
          IN /\ trimmed_videos' =
                    IF outcome \in {"created", "raised late"} THEN others \cup {written}
                    ELSE IF outcome = "no file" THEN others
                    ELSE trimmed_videos
             /\ merged_video_path' =
                    IF outcome \in {"created", "no file"} THEN path ELSE <<>>
             /\ merged_video_url' =
                    IF outcome \in {"created", "no file"}
                    THEN merged_url(path, trimmed_videos')
                    ELSE <<>>
    /\ spc' = "responded"
    /\ http_status' = 200
    /\ UNCHANGED <<store_hits, results, oracle_reply, presented, filtered_results>>

NextSearch ==
    \/ SearchScenes
    \/ FilterTrulyRelevantScenes
    \/ AnalyzeSearchResults
    \/ CreateMergedVideo

SpecSearch == InitSearch /\ [][NextSearch]_vars

\* ------------------ specification: uploads, processing runs and reprocessing

\* The store is the in-memory one (initialize sets client = None), so no await
\* of a run suspends it: a run, once begun, holds the event loop to its end,
\* and no other handler starts while run # NoRun.
InitIngest ==
    /\ WIdle
    /\ SIdle
    /\ PIdle
    /\ MIdle
    /\ AIdle
    /\ TIdle
    /\ videos_storage = [v \in VideoIds |-> NoVideo]
    /\ scenes_storage = <<>>
    /\ background_tasks = {}
    /\ run = NoRun
    /\ uuids_used = 0
    /\ runs_started = 0
    /\ reprocess_status = 0

\* The first lines of process_video_background: status "processing", stored.
BeginRun(v, origin) ==
    /\ videos_storage' =
           [videos_storage EXCEPT
               ![v] = [videos_storage[v] EXCEPT !.processing_status = "processing"]]
    /\ run' = [video_id |-> v, step |-> "process", scenes |-> <<>>, stored |-> 0,
               origin |-> origin]
    /\ runs_started' = runs_started + 1

\* The end of a run: a reprocess request answers "success" either way.
EndRun ==
    /\ run' = NoRun
    /\ reprocess_status' = IF run.origin = "reprocess" THEN 200 ELSE reprocess_status

\* POST /upload of a video file: metadata "queued", the run queued.
UploadVideo ==
    /\ UNCHANGED <<pvars, mvars, avars, svars, tvars, wvars>>
    /\ run = NoRun
    /\ \E v \in VideoIds :
          /\ videos_storage[v] = NoVideo
          /\ videos_storage' = [videos_storage EXCEPT ![v] = VideoMetadata("queued", 0)]
          /\ background_tasks' = background_tasks \cup {v}
    /\ UNCHANGED <<scenes_storage, run, uuids_used, runs_started, reprocess_status>>

\* The queued task of an upload starts (runs are counted up to MaxRuns).
StartBackgroundTask ==
    /\ UNCHANGED <<pvars, mvars, avars, svars, tvars, wvars>>
    /\ run = NoRun
    /\ runs_started < MaxRuns
    /\ \E v \in background_tasks :
          /\ BeginRun(v, "upload")
          /\ background_tasks' = background_tasks \ {v}
    /\ UNCHANGED <<scenes_storage, uuids_used, reprocess_status>>

\* POST /reprocess_video/{video_id}: 404 (sent as 500 by the handler's except)
\* for an unknown video, else process_video_background on its metadata.
ReprocessVideo ==
    /\ UNCHANGED <<pvars, mvars, avars, svars, tvars, wvars>>
    /\ run = NoRun
    /\ runs_started < MaxRuns
    /\ \E v \in VideoIds :
          IF videos_storage[v] = NoVideo
          THEN /\ reprocess_status' = 500
               /\ UNCHANGED <<videos_storage, run, runs_started>>
          ELSE /\ BeginRun(v, "reprocess")
               /\ reprocess_status' = 0
    /\ UNCHANGED <<scenes_storage, background_tasks, uuids_used>>

\* await video_processor.process_video(...): the scenes, or an exception, which
\* the except clause turns into status "failed".
ProcessVideo ==
    /\ UNCHANGED <<pvars, mvars, avars, svars, tvars, wvars>>
    /\ run.step = "process"
    /\ \/ \E changes \in IngestTransitionLists :
             LET scenes == process_video(changes, run.video_id, uuids_used)
             IN /\ run' = [run EXCEPT !.scenes = scenes, !.step = "store"]
                /\ uuids_used' = uuids_used + Len(scenes)
                /\ UNCHANGED <<videos_storage, reprocess_status>>
       \/ /\ videos_storage' =
                 [videos_storage EXCEPT
                     ![run.video_id] =
                         failed_metadata(videos_storage[run.video_id], "process_video raised")]
          /\ EndRun
          /\ UNCHANGED uuids_used
    /\ UNCHANGED <<scenes_storage, background_tasks, runs_started>>

\* await vector_store.store_scene(scene), once per scene of the loop: the scene
\* is stored, or the call raises and the except clause ends the run.
StoreScene ==
    /\ UNCHANGED <<pvars, mvars, avars, svars, tvars, wvars>>
    /\ run.step = "store"
    /\ \/ /\ scenes_storage' = Append(scenes_storage, run.scenes[run.stored + 1])
          /\ run' = [run EXCEPT !.stored = run.stored + 1,
                                !.step = IF run.stored + 1 = Len(run.scenes)
                                         THEN "complete" ELSE "store"]
          /\ UNCHANGED <<videos_storage, reprocess_status>>
       \/ /\ videos_storage' =
                 [videos_storage EXCEPT
                     ![run.video_id] =
                         failed_metadata(videos_storage[run.video_id], "store_scene raised")]
          /\ EndRun
          /\ UNCHANGED scenes_storage
    /\ UNCHANGED <<background_tasks, uuids_used, runs_started>>

\* Status "completed" with scenes_count = len(scenes), stored.
CompleteRun ==
    /\ UNCHANGED <<pvars, mvars, avars, svars, tvars, wvars>>
    /\ run.step = "complete"
    /\ videos_storage' =
           [videos_storage EXCEPT
               ![run.video_id] =
                   [videos_storage[run.video_id] EXCEPT
                       !.processing_status = "completed",
                       !.scenes_count = Len(run.scenes)]]
    /\ EndRun
    /\ UNCHANGED <<scenes_storage, background_tasks, uuids_used, runs_started>>

NextIngest ==
    \/ UploadVideo
    \/ StartBackgroundTask
    \/ ReprocessVideo
    \/ ProcessVideo
    \/ StoreScene
    \/ CompleteRun

SpecIngest == InitIngest /\ [][NextIngest]_vars

\* A run that has begun goes on: process_video returns or raises, and none of
\* the awaits of process_video_background on the in-memory store suspends.
SpecIngestFair ==
    /\ SpecIngest
    /\ WF_vars(ProcessVideo)
    /\ WF_vars(StoreScene)
    /\ WF_vars(CompleteRun)

\* -------------------------------------------- specification: one trim_video call

InitTrim ==
    /\ WIdle
    /\ SIdle
    /\ PIdle
    /\ MIdle
    /\ AIdle
    /\ IIdle
    /\ tpc = "pending"
    /\ ffmpeg_found \in BOOLEAN
    /\ input_exists \in BOOLEAN
    /\ trim_start \in 0..MaxTrimTime
    /\ trim_end \in 0..MaxTrimTime
    /\ commands_issued = 0
    /\ trim_output = "none"
    /\ trim_error = "none"

\* trim_video up to its await: the three checks, then the extraction command.
TrimVideo ==
    /\ UNCHANGED <<pvars, mvars, avars, svars, ivars, wvars>>
    /\ tpc = "pending"
    /\ IF ~ffmpeg_found
       THEN /\ trim_error' = "RuntimeError: ffmpeg is not installed"
            /\ tpc' = "failed"
            /\ UNCHANGED commands_issued
       ELSE IF ~input_exists
       THEN /\ trim_error' = "FileNotFoundError"
            /\ tpc' = "failed"
            /\ UNCHANGED commands_issued
       ELSE IF time_range_rejected(trim_start, trim_end)
       THEN /\ trim_error' = "ValueError: Start time must be less than end time"
            /\ tpc' = "failed"
            /\ UNCHANGED commands_issued
       ELSE /\ commands_issued' = commands_issued + 1
            /\ tpc' = "running"
            /\ UNCHANGED trim_error
    /\ UNCHANGED <<ffmpeg_found, input_exists, trim_start, trim_end, trim_output>>

\* The media tool exits: the path is returned, or the except clause removes
\* what the tool wrote (a removal that fails is passed over) and re-raises.
TrimToolExit ==
    /\ UNCHANGED <<pvars, mvars, avars, svars, ivars, wvars>>
    /\ tpc = "running"
    /\ \E tool_ok \in BOOLEAN, wrote \in BOOLEAN, remove_ok \in BOOLEAN :
          IF tool_ok
          THEN /\ trim_output' = "complete"
               /\ tpc' = "done"
               /\ UNCHANGED trim_error
          ELSE /\ trim_output' = IF wrote /\ ~remove_ok THEN "partial" ELSE "none"
               /\ trim_error' = "RuntimeError: ffmpeg failed"
               /\ tpc' = "failed"
    /\ UNCHANGED <<ffmpeg_found, input_exists, trim_start, trim_end, commands_issued>>

NextTrim ==
    \/ TrimVideo
    \/ TrimToolExit

SpecTrim == InitTrim /\ [][NextTrim]_vars

\* ------------------------------------------------------------------ claims

\* C1: for every duration > 0 and every strictly increasing transition list
\* inside [0, duration), the scene list covers exactly [0, duration): the
\* first scene starts at 0, the last ends at the duration, no gap in between.
C1_Coverage ==
    ppc = "scenes_done" =>
        /\ scene_list[1][1] = 0
        /\ Last(scene_list)[2] = video_duration
        /\ \A i \in 1..(Len(scene_list) - 1) : scene_list[i][2] = scene_list[i + 1][1]

\* The Python indices the claim says are confirmed.
C6_Expected(diffs, n, thr) ==
    {i \in 1..(n - 1) : diffs[i] > thr /\ ~(1 < i /\ i < n - 1 /\ diffs[i - 1] > thr)}

C7_Monotone ==
    ppc = "functions" =>
        /\ (0 \in tried => kept[0] = slide_changes)
        /\ \A d1, d2 \in tried :
              d1 <= d2 => Len(kept[d2]) <= Len(kept[d1])

\* Every duration has been tried on a list that shrinks strictly on the way.
C7_Witness ==
    /\ ppc = "functions"
    /\ tried = MinDurations
    /\ kept[0] = slide_changes
    /\ Len(slide_changes) >= 3
    /\ \E d1, d2 \in MinDurations :
          /\ 0 < d1 /\ d1 < d2
          /\ Len(kept[d2]) < Len(kept[d1])
          /\ Len(kept[d1]) < Len(kept[0])

\* C9: for a strictly increasing list of at least 2 transitions the scenes are
\* the consecutive transition pairs, in ascending order and with each end equal
\* to the next start, and a trailing scene (last transition, duration) is
\* appended exactly when the last transition is before the duration.
C9_Contiguous ==
    (ppc = "functions" /\ scene_list # <<>> /\ Len(slide_changes) >= 2) =>
        LET n == Len(slide_changes)
            trailing == Last(slide_changes)[1] < video_duration
        IN /\ Len(scene_list) = (n - 1) + (IF trailing THEN 1 ELSE 0)
           /\ \A i \in 1..(n - 1) :
                 scene_list[i] = <<slide_changes[i][1], slide_changes[i + 1][1]>>
           /\ (trailing => Last(scene_list) = <<Last(slide_changes)[1], video_duration>>)
           /\ \A i \in 1..(Len(scene_list) - 1) :
                 /\ scene_list[i][1] < scene_list[i + 1][1]
                 /\ scene_list[i][2] = scene_list[i + 1][1]

\* A list of 3 transitions ending before the duration: the trailing scene is there.
C9_Witness ==
    /\ ppc = "functions"
    /\ scene_list # <<>>
    /\ Len(slide_changes) = 3
    /\ Last(slide_changes)[1] < video_duration
    /\ Len(scene_list) = 3
    /\ Last(scene_list)[2] = video_duration

\* " ".join(texts)
RECURSIVE SpaceJoin(_)
SpaceJoin(texts) ==
    IF texts = <<>> THEN <<>>
    ELSE IF Len(texts) = 1 THEN texts[1]
    ELSE texts[1] \o <<" ">> \o SpaceJoin(Tail(texts))

\* The texts, in segment order, of the segments with seg_start < end and seg_end > start.
RECURSIVE OverlappingTexts(_, _, _)
OverlappingTexts(segs, start, end) ==
    IF segs = <<>> THEN <<>>
    ELSE LET rest == OverlappingTexts(Tail(segs), start, end)
         IN IF Head(segs).start < end /\ Head(segs).end > start
            THEN <<Head(segs).text>> \o rest
            ELSE rest

\* C8 as stated: each scene's transcript is the space-joined text, in segment
\* order, of exactly the segments with seg_start < end and seg_end > start.
C8_SpaceJoined ==
    ppc = "visual_context" =>
        \A k \in 1..Len(scene_list) :
            scene_transcripts[k].transcript =
                SpaceJoin(OverlappingTexts(segments, scene_list[k][1], scene_list[k][2]))

\* C8 amended: each scene's transcript is the space-joined text, in segment
\* order, of exactly the segments with seg_start < end and seg_end > start,
\* with leading and trailing whitespace stripped; a segment that only touches
\* the scene contributes nothing, and a scene no segment overlaps gets the
\* empty string.
C8_SpaceJoinedStripped ==
    ppc = "visual_context" =>
        /\ Len(scene_transcripts) = Len(scene_list)
        /\ \A k \in 1..Len(scene_list) :
              LET start == scene_list[k][1]
                  end == scene_list[k][2]
              IN /\ scene_transcripts[k].transcript =
                        strip(SpaceJoin(OverlappingTexts(segments, start, end)))
                 /\ (\A j \in 1..Len(segments) :
                          segments[j].end <= start \/ segments[j].start >= end)
                       => scene_transcripts[k].transcript = <<>>

\* Three scenes and one segment that spans the first boundary and ends exactly
\* where the third scene starts: its text is in scenes 1 and 2, scene 3 is empty.
C8_Witness ==
    /\ ppc = "visual_context"
    /\ Len(scene_list) = 3
    /\ Len(segments) = 1
    /\ segments[1].text = <<" ", "b">>
    /\ segments[1].start < scene_list[1][2]
    /\ segments[1].end = scene_list[3][1]
    /\ scene_transcripts[1].transcript = <<"b">>
    /\ scene_transcripts[2].transcript = <<"b">>
    /\ scene_transcripts[3].transcript = <<>>

\* C2: for any selected scenes of one video (overlapping or nested, in any
\* order) the play segments [min start_time, max end_time] of the groups are
\* pairwise disjoint and listed in ascending start time.
C2_DisjointAscending ==
    mpc = "merged" =>
        \A i, j \in 1..Len(play) :
            i < j => (play[i][1] < play[j][1] /\ play[i][2] <= play[j][1])

\* The play segments among the clips: the title cards left out.
PlayFiles(files) == SelectSeq(files, LAMBDA f : f.kind = "segment")

VideoIdsOf(items) == [i \in 1..Len(items) |-> items[i].video_id]

\* The different ids of a list, each at its first occurrence.
RECURSIVE FirstSeen(_)
FirstSeen(ids) ==
    IF ids = <<>> THEN <<>>
    ELSE LET before == FirstSeen(SubSeq(ids, 1, Len(ids) - 1))
         IN IF \E i \in 1..Len(before) : before[i] = Last(ids)
            THEN before
            ELSE Append(before, Last(ids))

\* The selected scenes of the videos whose file exists.
UsableResults == SelectSeq(search_results, LAMBDA r : r.video_id \in available)

\* C4 as stated: in the final sequence the videos' segment groups appear in the
\* order in which each video id is first met in the input selection list.
C4_EncounterOrder ==
    apc = "done" =>
        FirstSeen(VideoIdsOf(PlayFiles(segment_files))) = FirstSeen(VideoIdsOf(UsableResults))

\* C4 amended: in the final sequence the videos' segment groups appear in
\* ascending order of video id (the selection is sorted by (video_id,
\* start_time) before it is grouped), each video's segments together, whatever
\* the order of the input selection list and the timestamps.
C4_VideoIdOrder ==
    apc = "done" =>
        LET ids == VideoIdsOf(PlayFiles(segment_files))
        IN /\ \A i \in 1..(Len(ids) - 1) : ids[i] <= ids[i + 1]
           /\ {ids[i] : i \in 1..Len(ids)}
                 = {UsableResults[i].video_id : i \in 1..Len(UsableResults)}

\* A finished request whose selection named video 2 first and video 1 later:
\* the output plays video 1 first.
C4_Witness ==
    /\ apc = "done"
    /\ Len(search_results) >= 2
    /\ search_results[1].video_id = 2
    /\ search_results[2].video_id = 1
    /\ available = VideoIds
    /\ PlayFiles(segment_files)[1].video_id = 1
    /\ Last(PlayFiles(segment_files)).video_id = 2

\* The name the claim gives for n play segments.
C5_Name(q, n, tenths, timestamp) ==
    <<"m", "e", "r", "g", "e", "d", "_">> \o query_safe(q) \o <<"_">>
        \o int_text(n) \o <<"s", "e", "g", "m", "e", "n", "t", "s", "_">>
        \o format_1f(tenths) \o <<"s", "_">> \o timestamp \o <<".", "m", "p", "4">>

\* C5: the output is named merged_<sanitized query>_<N>segments_<D>s_<suffix>.mp4
\* with N the number of play segments extracted from source videos (title
\* cards not counted) and D the total duration to one decimal (0.0 is let
\* through here for a failed probe), with and without title cards.
C5_NameCountsPlaySegments ==
    apc = "done" =>
        \E timestamp \in Timestamps, probe_ok \in BOOLEAN :
            \E tenths \in rounded_tenths(total_duration(segment_files, probe_ok)) :
                output_filename
                    = C5_Name(query, Len(PlayFiles(segment_files)), tenths, timestamp)

\* C10 as stated: a terminal error is raised only when the selection is empty
\* or no usable segment remains.
C10_ErrorOnlyWhenNothingUsable ==
    apc = "failed" => (search_results = <<>> \/ UsableResults = <<>>)

\* The play segments of video v in the clips.
C10_PlayOf(v) ==
    LET files == SelectSeq(PlayFiles(segment_files), LAMBDA f : f.video_id = v)
    IN [i \in 1..Len(files) |-> <<files[i].start_time, files[i].end_time>>]

\* C10 amended: a video whose file is missing contributes no segment and the
\* segments of the other videos are all extracted and concatenated; a terminal
\* error is raised only when the selection is empty, when no usable segment
\* remains, or when a media-tool step (a segment extraction, the
\* concatenation or the single-clip copy) fails.
C10_MissingVideoSkipped ==
    /\ \A i \in 1..Len(segment_files) :
          segment_files[i].kind = "segment" => segment_files[i].video_id \in available
    /\ apc = "done" =>
          /\ UsableResults # <<>>
          /\ output_file = "complete"
          /\ \A v \in VideoIds :
                C10_PlayOf(v) =
                    segment_bounds(_merge_overlapping_segments(
                        SelectSeq(UsableResults, LAMBDA r : r.video_id = v)))
    /\ apc = "failed" =>
          /\ error \in {"ValueError: No search results provided for merging",
                         "ValueError: No valid video segments found for merging",
                         "RuntimeError: Failed to trim segment",
                         "RuntimeError: Failed to merge segments",
                         "OSError: copy failed"}
          /\ (error = "ValueError: No search results provided for merging"
                <=> search_results = <<>>)
          /\ (error = "ValueError: No valid video segments found for merging"
                <=> (search_results # <<>> /\ UsableResults = <<>>))

\* A finished request that selected both videos while the file of video 1 was
\* missing: the output holds the segments of video 2 alone.
C10_Witness ==
    /\ apc = "done"
    /\ available = {2}
    /\ \E i \in 1..Len(search_results) : search_results[i].video_id = 1
    /\ C10_PlayOf(1) = <<>>
    /\ Len(C10_PlayOf(2)) = 2

\* The spec's example: 3 play segments totalling 45.67 s, no title cards.
NameExample ==
    /\ apc = "done"
    /\ Len(segment_files) = 3
    /\ SubSeq(output_filename, 1, 44) =
          <<"m", "e", "r", "g", "e", "d", "_", "e", "x", "p", "l", "a", "i", "n", "_", "a",
            "r", "c", "h", "i", "t", "e", "c", "t", "u", "r", "e", "_", "3", "s", "e", "g",
            "m", "e", "n", "t", "s", "_", "4", "5", ".", "7", "s", "_">>

\* C3: whenever the semantic search returns candidates and the relevance
\* filtering returns an empty list, the request goes on to the assembly with
\* the top 2 candidates, results[:2]; it never ends without a result.
C3_FallbackTopTwo ==
    (spc = "responded" /\ http_status = 200 /\ results # <<>>
        /\ filter_truly_relevant_scenes(results, oracle_reply) = <<>>)
    => (assembly_input = top_results(results) /\ assembly_input # <<>>)

\* C11: when the oracle call raises, times out or answers text that does not
\* parse, the filter hands back all the candidates in their order, and the
\* request goes on to a normal response, never to an HTTP 500.
C11_PassThroughOnOracleFailure ==
    (spc \in {"analyze", "assemble", "responded"}
        /\ results # <<>> /\ oracle_reply.failed)
    => /\ filtered_results = results
       /\ http_status # 500
       /\ spc = "responded" => http_status = 200

\* An oracle failure on candidates of two videos, not in scene order, answered.
C11_Witness ==
    /\ spc = "responded"
    /\ oracle_reply.failed
    /\ Len(results) >= 2
    /\ results # presented
    /\ filtered_results = results
    /\ assembly_input = results
    /\ http_status = 200

\* C12: once a non-zero exit of the media tool (segment extraction or
\* concatenation) has surfaced as the error with the tool's text, nothing of the
\* operation is left: no partial output file, no concat list, no temporary clip.
C12_NothingLeftAfterToolFailure ==
    (apc = "failed"
        /\ error \in {"RuntimeError: Failed to trim segment",
                      "RuntimeError: Failed to merge segments"})
    => /\ output_file = "none"
       /\ ~concat_file
       /\ ~temp_dir

\* C13: a video's processing_status only moves queued -> processing ->
\* completed or failed (from nothing to queued at upload), and a completed or
\* failed video keeps its status for good.
C13_StatusLifecycle ==
    [][\A v \in VideoIds :
          LET before == videos_storage[v].processing_status
              after == videos_storage'[v].processing_status
          IN before # after
             => <<before, after>> \in {<<"absent", "queued">>, <<"queued", "processing">>,
                                     <<"processing", "completed">>,
                                     <<"processing", "failed">>}]_vars

\* C14: the scenes get_video_scenes returns for a completed video do not
\* overlap and are numbered 1..scenes_count, each number once.
C14_CompletedScenesWellFormed ==
    \A v \in VideoIds :
        videos_storage[v].processing_status = "completed"
        => LET scenes == get_video_scenes(scenes_storage, v)
           IN /\ Len(scenes) = videos_storage[v].scenes_count
              /\ \A k \in 1..Len(scenes) : scenes[k].scene_number = k
              /\ \A j, k \in 1..Len(scenes) :
                    j # k => \/ scenes[j].end_time <= scenes[k].start_time
                             \/ scenes[k].end_time <= scenes[j].start_time

\* C15: scenes of different source videos never share a play segment: every
\* video's entry holds that video's scenes only, every group merged from it
\* too, and every clip is cut from one video, over scenes of that video.
C15_NoCrossVideoGroup ==
    /\ \A i \in 1..Len(video_segments) :
          \A k \in 1..Len(video_segments[i].segments) :
              video_segments[i].segments[k].video_id = video_segments[i].video_id
    /\ apc \in {"title", "trim"}
       => \A g \in 1..Len(merged_segments) :
             \A k \in 1..Len(merged_segments[g]) :
                 merged_segments[g][k].video_id = video_segments[vidx].video_id
    /\ \A n \in 1..Len(PlayFiles(segment_files)) :
          LET f == PlayFiles(segment_files)[n]
          IN /\ \E r \in 1..Len(search_results) :
                   /\ search_results[r].video_id = f.video_id
                   /\ search_results[r].start_time = f.start_time
             /\ \E r \in 1..Len(search_results) :
                   /\ search_results[r].video_id = f.video_id
                   /\ search_results[r].end_time = f.end_time

\* One video's scene ends exactly where the other video's scene starts, and
\* the output plays them as two clips.
C15_Witness ==
    /\ apc = "done"
    /\ Len(search_results) = 2
    /\ search_results[1].video_id # search_results[2].video_id
    /\ search_results[1].end_time = search_results[2].start_time
    /\ Len(PlayFiles(segment_files)) = 2
    /\ PlayFiles(segment_files)[1].video_id # PlayFiles(segment_files)[2].video_id

\* The characters the sanitized query may hold.
C16_Allowed == AlnumChars \cup {"-", "_"}

C16_Underscored(text) == [i \in 1..Len(text) |-> IF text[i] = " " THEN "_" ELSE text[i]]

C16_Truncated(text) == SubSeq(text, 1, IF Len(text) < 50 THEN Len(text) ELSE 50)

\* The sanitized query as stated: filter, blanks to underscores, cut at 50.
C16_Stated(q) ==
    C16_Truncated(C16_Underscored(SelectSeq(q, LAMBDA c : c \in C16_Allowed \cup {" "})))

\* The same with the blanks at the end of the filtered text dropped first.
C16_TrailingBlanksDropped(q) ==
    C16_Truncated(C16_Underscored(rstrip(SelectSeq(q, LAMBDA c : c \in C16_Allowed \cup {" "}))))

\* The file name around a given sanitized query, for the one clip of the call.
C16_NamedWith(sanitized) ==
    \E timestamp \in Timestamps, tenths \in {0, 100} :
        output_filename =
            <<"m", "e", "r", "g", "e", "d", "_">> \o sanitized
                \o <<"_", "1", "s", "e", "g", "m", "e", "n", "t", "s", "_">>
                \o format_1f(tenths) \o <<"s", "_">> \o timestamp \o <<".", "m", "p", "4">>

\* C16 as stated: the name's query part is the query with the characters
\* other than alphanumerics, space, hyphen and underscore removed, then blanks
\* replaced by underscores, then cut at 50 characters.
C16_SanitizedAsStated ==
    apc = "concat" => C16_NamedWith(C16_Stated(query))

\* C16: the name's query part is the query with the characters other than
\* alphanumerics, space, hyphen and underscore removed, then the trailing
\* blanks dropped, then blanks replaced by underscores, then cut at 50
\* characters; it holds alphanumerics, hyphens and underscores only and is at
\* most 50 characters long.
C16_SanitizedTrailingBlanksDropped ==
    apc = "concat" =>
        /\ C16_NamedWith(C16_TrailingBlanksDropped(query))
        /\ Len(C16_TrailingBlanksDropped(query)) <= 50
        /\ \A i \in 1..Len(C16_TrailingBlanksDropped(query)) :
              C16_TrailingBlanksDropped(query)[i] \in C16_Allowed

\* A named output whose query has punctuation and a blank and is cut.
C16_Witness ==
    /\ apc = "concat"
    /\ Len(SelectSeq(query, query_keeps)) > QueryLimit
    /\ \E i \in 1..Len(query) : query[i] = "!"
    /\ \E i \in 1..Len(query) : query[i] = " "
    /\ Len(output_filename) > QueryLimit

\* The call was refused before any extraction command: failed, nothing issued
\* to the media tool, no output file.
C17_Refused ==
    /\ tpc = "failed"
    /\ commands_issued = 0
    /\ trim_output = "none"

\* C17 as stated: a missing input file is refused with FileNotFoundError and a
\* range with start_time >= end_time with ValueError (either, when both apply),
\* before the extraction command, with no output file and no second attempt.
C17_RefusedAsStated ==
    /\ commands_issued <= 1
    /\ tpc # "pending" =>
          /\ ~input_exists /\ trim_start < trim_end
             => C17_Refused /\ trim_error = "FileNotFoundError"
          /\ input_exists /\ trim_start >= trim_end
             => C17_Refused
                /\ trim_error = "ValueError: Start time must be less than end time"
          /\ ~input_exists /\ trim_start >= trim_end
             => C17_Refused
                /\ trim_error \in {"FileNotFoundError",
                                   "ValueError: Start time must be less than end time"}

\* C17: with the media tool installed, trim_video refuses a missing input file
\* with FileNotFoundError and, the file being there, a range with
\* start_time >= end_time with ValueError; without the media tool it refuses
\* every call with RuntimeError. All of this comes before the extraction
\* command is issued, leaves no output file, and nothing is tried again.
C17_RefusedBeforeCommand ==
    /\ commands_issued <= 1
    /\ (tpc # "pending" /\ (~ffmpeg_found \/ ~input_exists \/ trim_start >= trim_end))
       => /\ C17_Refused
          /\ trim_error =
                IF ~ffmpeg_found THEN "RuntimeError: ffmpeg is not installed"
                ELSE IF ~input_exists THEN "FileNotFoundError"
                ELSE "ValueError: Start time must be less than end time"

\* A call with the file there and start_time = end_time, refused.
C17_Witness ==
    /\ tpc = "failed"
    /\ ffmpeg_found
    /\ input_exists
    /\ trim_start = trim_end
    /\ trim_start > 0
    /\ trim_error = "ValueError: Start time must be less than end time"
    /\ commands_issued = 0

\* C18: the merged_video_url of a response is None or the URL, by name, of the
\* file this request's assembly wrote from this request's filtered scenes; with
\* no candidates, nothing left by the filter or a failed assembly it is None,
\* whatever files earlier requests have left.
C18_UrlOfThisRequest ==
    /\ merged_video_url # <<>>
       => /\ spc = "responded" /\ http_status = 200
          /\ filtered_results # <<>>
          /\ \E f \in trimmed_videos :
                /\ merged_video_url
                      = <<"/", "t", "r", "i", "m", "m", "e", "d", "_", "v", "i", "d", "e", "o",
                          "s", "/">> \o SubSeq(f.path, 16, Len(f.path))
                /\ f.path = merged_video_path
                /\ f.request = "this"
                /\ f.scenes = filtered_results
    /\ (spc = "responded"
          /\ (results = <<>> \/ filtered_results = <<>> \/ merged_video_path = <<>>))
       => merged_video_url = <<>>

\* A response whose URL names the file written over an earlier request's file
\* of the same name, another earlier file being still there.
C18_Witness ==
    /\ spc = "responded"
    /\ merged_video_url # <<>>
    /\ Cardinality(trimmed_videos) = 2
    /\ \E f \in trimmed_videos : f.request = "earlier"
    /\ \E f \in trimmed_videos : f.request = "this" /\ f.path = merged_video_path

\* The selection is sorted by start and each scene starts more than the merge
\* gap of 5 s after the one before it ends.
C19_Separated ==
    \A i \in 1..(Len(selection) - 1) :
        /\ selection[i].start_time < selection[i + 1].start_time
        /\ selection[i].end_time + 500 < selection[i + 1].start_time

\* C19: merging scenes of one video that are disjoint, sorted by start time
\* and more than 5 s apart gives one group per scene, in the same order, with
\* the scene's own start and end.
C19_SeparatedUnchanged ==
    (mpc = "merged" /\ C19_Separated)
    => /\ Len(groups) = Len(selection)
       /\ \A i \in 1..Len(selection) :
             /\ groups[i] = <<selection[i]>>
             /\ play[i] = <<selection[i].start_time, selection[i].end_time>>

\* Three scenes ten seconds apart, merged.
C19_Witness ==
    /\ mpc = "merged"
    /\ Len(selection) = 3
    /\ C19_Separated
    /\ Len(play) = 3

\* The walk as stated: a scene joins when it starts no later than 5 s after
\* the largest end in the current group.
RECURSIVE C20_Walk(_, _, _, _, _)
C20_Walk(sorted_scenes, k, done_groups, current_group, current_group_end) ==
    IF k > Len(sorted_scenes) THEN Append(done_groups, current_group)
    ELSE IF sorted_scenes[k].start_time <= current_group_end + 500
         THEN C20_Walk(sorted_scenes, k + 1, done_groups,
                       Append(current_group, sorted_scenes[k]),
                       Max2(current_group_end, sorted_scenes[k].end_time))
         ELSE C20_Walk(sorted_scenes, k + 1, Append(done_groups, current_group),
                       <<sorted_scenes[k]>>, sorted_scenes[k].end_time)

\* C20: walking the scenes in ascending start_time, a scene joins the current
\* group exactly when start_time <= current_group_end + 5, current_group_end
\* being the largest end_time in the group; [10,20), [22,30), [50,60) gives the
\* groups [10,30) and [50,60).
C20_GroupsByMaxEnd ==
    mpc = "merged" =>
        /\ selection # <<>> =>
              groups = C20_Walk(sorted_by_start(selection), 2, <<>>,
                                <<sorted_by_start(selection)[1]>>,
                                sorted_by_start(selection)[1].end_time)
        /\ selection \in MergeExamples /\ selection[2].start_time = 2200
              => play = <<<<1000, 3000>>, <<5000, 6000>>>>

\* The kept transition a transition is measured against: the latest one kept
\* among those before it.
C21_LastKeptBefore(kept_list, t) ==
    CHOOSE k \in 1..Len(kept_list) :
        /\ kept_list[k][1] < t
        /\ \A j \in 1..Len(kept_list) : kept_list[j][1] < t => j <= k

\* C21: _consolidate_short_scenes keeps the first transition and each later
\* one exactly when it is at least min_scene_duration after the last kept one;
\* the output is a subsequence of the input, in order, with consecutive kept
\* transitions at least min_scene_duration apart; 10, 25, 30 with 3 s all stay.
C21_KeptFromLastKept ==
    ppc = "functions" =>
        \A d \in tried :
            LET out == kept[d]
            IN /\ slide_changes = <<>> => out = <<>>
               /\ slide_changes # <<>> =>
                     /\ out # <<>> /\ out[1] = slide_changes[1]
                     /\ StrictlyIncreasing(Times(out))
                     /\ \A k \in 1..Len(out) :
                           \E i \in 1..Len(slide_changes) : slide_changes[i] = out[k]
                     /\ \A k \in 1..(Len(out) - 1) : out[k + 1][1] - out[k][1] >= d
                     /\ \A i \in 2..Len(slide_changes) :
                           (\E k \in 1..Len(out) : out[k] = slide_changes[i])
                           <=> slide_changes[i][1]
                                  - out[C21_LastKeptBefore(out, slide_changes[i][1])][1] >= d
               /\ (Times(slide_changes) = <<10, 25, 30>> /\ d = 3) => out = slide_changes

\* A transition less than d after the one before it, kept because it is d
\* after the last kept one.
C21_Witness ==
    /\ ppc = "functions"
    /\ \E d \in tried :
          /\ Len(slide_changes) = 3
          /\ slide_changes[3][1] - slide_changes[2][1] < d
          /\ Len(kept[d]) = 2
          /\ kept[d][2] = slide_changes[3]

\* A run: every transition less than d after the one before it, d > 0.
C22_Run(d) ==
    /\ d > 0
    /\ Len(slide_changes) >= 3
    /\ \A i \in 2..Len(slide_changes) : slide_changes[i][1] - slide_changes[i - 1][1] < d

\* C22 as stated: a run of transitions, each less than min_scene_duration
\* after the one before, goes into one merged scene however long the run is,
\* so that the merged scene outgrows every multiple of min_scene_duration.
C22_RunAccumulates ==
    ppc = "functions" =>
        \A d \in tried : C22_Run(d) => kept[d] = <<slide_changes[1]>>

\* C22: in such a run a transition is kept as soon as min_scene_duration has
\* passed since the last kept one, so every transition of the run is less than
\* min_scene_duration after a kept one and two consecutive kept transitions
\* are less than twice min_scene_duration apart.
C22_RunCutWithinTwice ==
    ppc = "functions" =>
        \A d \in tried :
            C22_Run(d) =>
                /\ \A i \in 1..Len(slide_changes) :
                      \E k \in 1..Len(kept[d]) :
                          /\ kept[d][k][1] <= slide_changes[i][1]
                          /\ slide_changes[i][1] - kept[d][k][1] < d
                /\ \A k \in 1..(Len(kept[d]) - 1) :
                      kept[d][k + 1][1] - kept[d][k][1] < 2 * d

\* A run of four transitions cut in two by the consolidation.
C22_Witness ==
    /\ ppc = "functions"
    /\ \E d \in tried :
          /\ C22_Run(d)
          /\ Len(slide_changes) = 4
          /\ Len(kept[d]) = 2

\* The clips the two loops are to extract: for each available video of the
\* grouped selection, in the order of the grouping, the bounds of its groups.
RECURSIVE C23_SegmentList(_)
C23_SegmentList(items) ==
    IF items = <<>> THEN <<>>
    ELSE LET video_data == items[1]
             bounds == segment_bounds(_merge_overlapping_segments(video_data.segments))
             clips == IF video_data.video_id \in available
                      THEN [i \in 1..Len(bounds) |->
                               <<video_data.video_id, bounds[i][1], bounds[i][2]>>]
                      ELSE <<>>
         IN clips \o C23_SegmentList(SubSeq(items, 2, Len(items)))

C23_Extracted ==
    LET files == PlayFiles(segment_files)
    IN [i \in 1..Len(files) |-> <<files[i].video_id, files[i].start_time, files[i].end_time>>]

\* PENDING 0, EXTRACTING 1, CONCATENATING 2, DONE 3, FAILED 4.
C23_Phase(pc) ==
    CASE pc = "pending" -> 0
      [] pc \in {"resolve", "title", "trim", "name"} -> 1
      [] pc \in {"concat", "merging"} -> 2
      [] pc = "done" -> 3
      [] OTHER -> 4

\* What C23 says of each state of a request.
C23_States ==
    /\ C23_Phase(apc) \in {2, 3} =>
          /\ error = "none"
          /\ C23_Extracted
                = C23_SegmentList(group_by_video(sorted_results(search_results), <<>>))
    /\ apc \in {"merging", "done"} => concat_list = segment_files
    /\ apc = "done" => (returned_path = output_filename /\ output_file = "complete")
    /\ apc # "done" => returned_path = <<>>
    /\ apc = "failed" => error # "none"

\* What C23 says of each step of a request.
C23_Steps ==
    /\ C23_Phase(apc') \in {C23_Phase(apc), C23_Phase(apc) + 1, 4}
    /\ C23_Phase(apc) \in {3, 4} => C23_Phase(apc') = C23_Phase(apc)

\* C23: one assembly request runs PENDING -> EXTRACTING -> CONCATENATING ->
\* DONE, or to FAILED from any of the first three; while it concatenates or is
\* done, every segment of the segment list has been extracted, once and in
\* order, with no error; the concat list holds the clips and title cards in the
\* order of segment_files; a failed request carries an error and returns no
\* path, and a path is returned only by a request that is done.
C23_AssemblyStateMachine == []C23_States /\ [][C23_Steps]_vars

\* A finished request of two videos with title cards: four clips and at least
\* one card were concatenated in the order of segment_files.
C23_Witness ==
    /\ apc = "done"
    /\ Len(C23_Extracted) >= 3
    /\ \E i \in 1..Len(segment_files) : segment_files[i].kind = "title"
    /\ concat_list = segment_files
    /\ returned_path = output_filename

\* The description the claim gives scene k once its future has been yielded:
\* the one its own call returned, none when that call returned none.
C24_AttachedByIndex(k) ==
    LET scene == visual_scenes[k]
        description == futures[k].result
    IN IF scene.scene_image \in image_files /\ description # <<>>
       THEN /\ description = <<"d", Digits[scene.scene_image + 1]>>
            /\ scene.visual_context = description
            /\ scene.combined_context
                  = scene.transcript \o VisualContextLabel \o description
       ELSE /\ scene.visual_context = <<>>
            /\ scene.combined_context = scene.transcript

\* C24: whatever the order in which the calls complete, a scene whose future
\* has been handled carries the description its own call returned; a scene
\* without an image file, or whose call raised (or returned blanks only), has
\* no description and its transcript as combined_context; the transcripts and
\* the scenes not yet handled are untouched, and the call returns every scene.
C24_DescriptionsByIndex ==
    wpc \in {"running", "returned"} =>
        /\ \A k \in 1..Len(visual_scenes) :
              /\ visual_scenes[k].transcript = <<"t", Digits[k + 1]>>
              /\ visual_scenes[k].scene_number = k
              /\ IF \E i \in 1..Len(yielded) : yielded[i] = k
                 THEN C24_AttachedByIndex(k)
                 ELSE /\ visual_scenes[k].visual_context = <<>>
                      /\ visual_scenes[k].combined_context = visual_scenes[k].transcript
        /\ wpc = "returned" =>
              {yielded[i] : i \in 1..Len(yielded)} = 1..Len(visual_scenes)

\* Three scenes whose calls completed in the order 3, 1, 2; the call of scene 2
\* raised and the image of scene 1 is missing: scene 3 alone has a description.
C24_Witness ==
    /\ wpc = "returned"
    /\ yielded = <<3, 1, 2>>
    /\ image_files = {2, 3}
    /\ visual_scenes[1].visual_context = <<>>
    /\ visual_scenes[2].visual_context = <<>>
    /\ visual_scenes[3].visual_context = <<"d", "3">>
    /\ visual_scenes[3].combined_context
          = <<"t", "3">> \o VisualContextLabel \o <<"d", "3">>

\* The indices of a reply that lie in 1..n.
C25_InRange(relevant_indices, n) ==
    SelectSeq(relevant_indices, LAMBDA k : 1 <= k /\ k <= n)

\* C25: whatever indices the oracle names, every scene the filter returns is
\* one of the candidates; an index outside 1..len(candidates) adds nothing (one
\* scene is returned per index in range) and raises nothing: the request does
\* not end in an HTTP 500.
C25_ReturnedAreCandidates ==
    (spc \in {"analyze", "assemble", "responded"}
        /\ results # <<>> /\ ~oracle_reply.failed)
    => /\ \A i \in 1..Len(filtered_results) :
             \E j \in 1..Len(results) : filtered_results[i] = results[j]
       /\ Len(filtered_results)
             = Len(C25_InRange(oracle_reply.relevant_scenes, Len(results)))
       /\ http_status # 500

\* A reply naming index 0, or one past the last candidate, beside an index in
\* range: one candidate is returned and the request is answered.
C25_Witness ==
    /\ spc = "responded"
    /\ ~oracle_reply.failed
    /\ Len(results) = 2
    /\ oracle_reply.relevant_scenes \in {<<0, 2>>, <<3, 1>>}
    /\ Len(filtered_results) = 1
    /\ http_status = 200

\* The number of play segments among the first n clips.
C26_PlayBefore(n) == Len(PlayFiles(SubSeq(segment_files, 1, n)))

\* C26: in a finished output with title cards, a card stands before a play
\* segment of the video whose title it shows, and the card before the k-th play
\* segment says "Segment k".
C26_TitleCardOrdinal ==
    apc = "done" =>
        \A i \in 1..Len(segment_files) :
            segment_files[i].kind = "title" =>
                /\ i < Len(segment_files)
                /\ segment_files[i + 1].kind = "segment"
                /\ segment_files[i + 1].video_id = segment_files[i].video_id
                /\ segment_files[i].label = C26_PlayBefore(i) + 1

\* The step C27 is about: from the title card call the request goes on to the
\* extraction of the segment, with the card appended or with nothing appended,
\* and with no error.
C27_CardStep ==
    apc = "title" =>
        /\ apc' = "trim"
        /\ error' = "none"
        /\ temp_dir' = temp_dir
        /\ \/ segment_files' = segment_files
           \/ /\ Len(segment_files') = Len(segment_files) + 1
              /\ Last(segment_files').kind = "title"

\* The play segments of a finished request are those of the segment list,
\* however many of their cards are there.
C27_AllSegmentsIncluded ==
    apc = "done" =>
        /\ [i \in 1..Len(PlayFiles(segment_files)) |->
                <<PlayFiles(segment_files)[i].video_id,
                  PlayFiles(segment_files)[i].start_time,
                  PlayFiles(segment_files)[i].end_time>>]
             = C23_SegmentList(video_segments)
        /\ \A i \in 1..Len(segment_files) :
              segment_files[i].kind = "title" =>
                  (i < Len(segment_files) /\ segment_files[i + 1].kind = "segment")

\* C27: a title card whose generation fails (non-zero exit, or an exception)
\* is skipped; the play segment it was to announce is extracted and is in the
\* output all the same, and the request is not aborted by it.
C27_TitleCardFailureSkipped == []C27_AllSegmentsIncluded /\ [][C27_CardStep]_vars

\* A finished request of two videos with titles asked for, in which the card
\* of every segment but the last failed: three play segments and one card.
C27_Witness ==
    /\ apc = "done"
    /\ include_titles
    /\ Len(video_segments) > 1
    /\ Len(PlayFiles(segment_files)) = 3
    /\ Len(segment_files) = 4
    /\ segment_files[3].kind = "title"

\* C28: for every order of the candidates, the scenes the filter returns are,
\* index by index, the scenes the prompt showed the oracle as "Scene k".
C28_ReturnedAsPresented ==
    (spc \in {"analyze", "assemble", "responded"}
        /\ results # <<>> /\ ~oracle_reply.failed)
    => LET picked == C25_InRange(oracle_reply.relevant_scenes, Len(results))
       IN /\ Len(filtered_results) = Len(picked)
          /\ \A i \in 1..Len(picked) :
                /\ filtered_results[i].video_id = presented[picked[i]].video_id
                /\ filtered_results[i].scene_number = presented[picked[i]].scene_number

\* The play segments that hold the whole interval of a scene.
C29_Holding(scene) ==
    {j \in 1..Len(play) :
        play[j][1] <= scene.start_time /\ scene.end_time <= play[j][2]}

\* C29: each selected scene of a video whose file is there lies, whole, in
\* exactly one play segment of that video: none is left out of the output and
\* none is played twice.
C29_EachSceneInOneSegment ==
    mpc = "merged" =>
        \A i \in 1..Len(selection) : Cardinality(C29_Holding(selection[i])) = 1

\* What C30 says of every state: a video is "processing" only while its run
\* is under way, and a failed video carries the message of its exception.
C30_States ==
    \A v \in VideoIds :
        /\ videos_storage[v].processing_status = "processing" => run.video_id = v
        /\ videos_storage[v].processing_status = "failed"
              => videos_storage[v].error_message
                     \in {"process_video raised", "store_scene raised"}

\* C30: every run of process_video_background that has started ends with its
\* video "completed" or "failed"; an exception of process_video or of
\* store_scene leaves it "failed" with an error_message, and no video is
\* "processing" once the run has returned.
C30_RunsEnd ==
    /\ []C30_States
    /\ \A v \in VideoIds :
          (run.video_id = v)
              ~> (run = NoRun
                    /\ videos_storage[v].processing_status \in {"completed", "failed"})

\* A first run that failed in store_scene after it had stored a scene: the
\* video is "failed" with the message, the run is over.
C30_Witness ==
    /\ run = NoRun
    /\ runs_started = 1
    /\ \E v \in VideoIds :
          /\ videos_storage[v].processing_status = "failed"
          /\ videos_storage[v].error_message = "store_scene raised"
          /\ \E i \in 1..Len(scenes_storage) : scenes_storage[i].video_id = v

====
